---------------------------- MODULE Spec2Model ----------------------------
(***************************************************************************)
(* voiceForge: the three-actor core.                                       *)
(*   - the processing worker (src/dsp/processing.rs): command queue,       *)
(*     coalescing drains, panic isolation;                                 *)
(*   - the playback engine (src/audio/playback.rs): the real-time callback *)
(*     and the buffer hot swap;                                            *)
(*   - the orchestrator (src/main.rs): result folding, A/B toggle,         *)
(*     debounce timers.                                                    *)
(* Several specifications share the module, each running one part: Spec   *)
(* (the worker and a client that enqueues commands), SpecPlayback          *)
(* (callback, swaps, seeks), SpecCallback (write_audio_data on every       *)
(* input), SpecDebounce (the timers of the event loop), SpecPipeline (main *)
(* and the worker together), and those listed with them further down.      *)
(***************************************************************************)
EXTENDS Integers, Sequences, FiniteSets, TLC

VARIABLES
    \* ---- processing worker (processing.rs) ----
    cmdq,              \* commands in flight: crossbeam unbounded channel cmd_tx -> cmd_rx
    results,           \* every ProcessingResult sent on result_tx, in order
    cached_params,     \* Option<WorldParams>: "none" or the file analysed
    original_mono,     \* Option<AudioData>
    post_world_audio,  \* Option<AudioData>
    sample_rate,       \* u32 local of processing_loop: the file whose rate it holds
    wpc,               \* where the worker thread is
    latest_world,      \* drain-loop local
    latest_fx,         \* drain-loop local
    hist,              \* history: the commands enqueued, the panics caught
    batch,             \* history of the dispatch in progress / last finished
    handle,            \* the ProcessingHandle main owns: cmd_tx and the JoinHandle
    \* ---- playback engine (playback.rs) ----
    audio_lock,        \* Arc<RwLock<Arc<AudioData>>>: the slot, its writer, its readers
    position,          \* PlaybackState.position (AtomicUsize)
    playing,           \* PlaybackState.playing (AtomicBool)
    loop_enabled,      \* PlaybackState.loop_enabled (AtomicBool)
    live_gain,         \* PlaybackState.live_gain (AtomicU32 holding an f32)
    device_channels,   \* CallbackContext.device_channels
    cb,                \* the audio thread: where write_audio_data is, its locals
    ret,               \* history: what the last callback invocation did
    \* ---- orchestrator (main.rs) ----
    app,               \* AppState: audio_data, original_audio, ab_original, file_info
    mpc,               \* the main thread: which handler it is in, its locals
    pgh,               \* history: swaps done, results received, what position is for
    now,               \* Instant::now(), in ms since the loop started
    resynth_pending,   \* Option<Instant>
    effects_pending,   \* Option<Instant>
    lpc,               \* where the event loop is inside one iteration
    sent,              \* commands handed to processing.send, in order
    tlog               \* history: user actions and sends, with their times

workerVars == <<cmdq, results, cached_params, original_mono, post_world_audio,
                sample_rate, wpc, latest_world, latest_fx, hist, batch, handle>>

engineVars == <<audio_lock, position, playing, loop_enabled, live_gain,
                device_channels, cb, ret>>

mainVars == <<app, mpc, pgh>>

timerVars == <<now, resynth_pending, effects_pending, lpc, tlog>>

vars == <<workerVars, engineVars, mainVars, timerVars, sent>>

-----------------------------------------------------------------------------
(* Bounds of the model.                                                    *)
MaxSends == 3

-----------------------------------------------------------------------------
(* Values.                                                                 *)

\* Files a Load can name.  "a": stereo, short.  "b": mono, long enough that
\* half-speed synthesis exceeds MAX_SYNTHESIS_SAMPLES.  "empty": decodes, but
\* to audio the analysis refuses (world.rs 79-88: no mono sample, or sample
\* rate 0).  "huge": more than i32::MAX mono samples.  "missing": decode fails
\* (decoder.rs 209 included: no sample decoded).
Files == {"a", "b", "empty", "huge", "missing"}

\* WorldSliderValues: all defaults / speed 0.5 (the output is twice as long)
\* / speed 0.5 with the bypass flag set.
SliderVals == {"neutral", "slow", "bypass"}

\* EffectsParams: all defaults / some effect on.
FxVals == {"flat", "wet"}

NoAudio == [src |-> "none", ch |-> 0, w |-> "none", fx |-> <<>>, rate |-> "none"]

Channels(f) == CASE f = "a" -> 2
                 [] f = "b" -> 1
                 [] f = "huge" -> 1
                 [] f = "empty" -> 1
                 [] OTHER -> 0

\* decoder::decode_file_with_progress: Err for an unreadable file.
decode_ok(f) == f # "missing"

decode_file(f) == [src |-> f, ch |-> Channels(f), w |-> "none", fx |-> <<>>, rate |-> f]

to_mono(audio) == [audio EXCEPT !.ch = 1]

\* world::analyze_with_progress, then world_sys::analyze.
analyze_outcome(audio) ==
    IF audio.src = "empty" THEN "err"
    ELSE IF audio.src = "huge" THEN "panic"
    ELSE "ok"

WorldSliderValues_is_neutral(w) == w = "neutral"

EffectsParams_is_neutral(fx) == fx = "flat"

\* world_sys::synthesize on the modified parameters: AllocationTooLarge when
\* the stretched output passes the ceiling.
synthesize_ok(params, w) == ~(params = "b" /\ w = "slow")

synthesize(params, w, rate) ==
    [src |-> params, ch |-> 1, w |-> w, fx |-> <<>>, rate |-> rate]

apply_fx_chain(audio, fx) ==
    IF EffectsParams_is_neutral(fx) THEN audio
    ELSE [audio EXCEPT !.fx = Append(audio.fx, fx)]

-----------------------------------------------------------------------------
(* Commands and results.                                                   *)

Cmd(t, f, w, fx) == [t |-> t, f |-> f, w |-> w, fx |-> fx]
Load(f) == Cmd("Load", f, "none", "none")
Analyze(f) == Cmd("Analyze", f, "none", "none")
Resynthesize(w, fx) == Cmd("Resynthesize", "none", w, fx)
ReapplyEffects(fx) == Cmd("ReapplyEffects", "none", "none", fx)
ScanDirectory == Cmd("ScanDirectory", "none", "none", "none")
PrecheckAudio(f) == Cmd("PrecheckAudio", f, "none", "none")
Shutdown == Cmd("Shutdown", "none", "none", "none")

\* The commands the client chooses from.
ProcessingCommand ==
    {Load(f) : f \in Files \ {"b"}}
    \cup {Analyze(f) : f \in {"a", "empty", "huge"}}
    \cup {Resynthesize("neutral", "flat")}
    \cup {Resynthesize("slow", "wet"), Resynthesize("bypass", "wet")}
    \cup {ReapplyEffects(fx) : fx \in FxVals}
    \cup {PrecheckAudio("missing"), ScanDirectory, Shutdown}

Res(t, a, msg) == [t |-> t, a |-> a, msg |-> msg]
AudioReady(a) == Res("AudioReady", a, "")
AnalysisDone(a) == Res("AnalysisDone", a, "")
SynthesisDone(a) == Res("SynthesisDone", a, "")
Status(msg) == Res("Status", NoAudio, msg)
DirectoryListing == Res("DirectoryListing", NoAudio, "")
AudioPrecheckDone == Res("AudioPrecheckDone", NoAudio, "")
AudioPrecheckFailed == Res("AudioPrecheckFailed", NoAudio, "Cannot open file")

-----------------------------------------------------------------------------
(* The worker's handlers, as functions of the worker-private state         *)
(*   st = [results, cached_params, original_mono, post_world_audio,        *)
(*         sample_rate, panic].                                            *)
(* panic is set when the handler unwinds; what it wrote before stays.      *)

WorkerState ==
    [results |-> results, cached_params |-> cached_params,
     original_mono |-> original_mono, post_world_audio |-> post_world_audio,
     sample_rate |-> sample_rate, panic |-> FALSE]

send(st, r) == [st EXCEPT !.results = Append(@, r)]

run_analyze_drops_result(st, audio) == [st EXCEPT !.sample_rate = audio.rate]

\* processing.rs 83-112.  The progress callback posts "Analyzing... pct%"
\* (one message stands for the 25/50/75/100 series).
run_analyze(st, audio) ==
    LET s1 == [st EXCEPT !.sample_rate = audio.rate]
        out == analyze_outcome(audio)
        mono == to_mono(audio)
    IN  CASE out = "ok" ->
                send([send(s1, Status("Analyzing... 100%"))
                        EXCEPT !.cached_params = audio.src,
                               !.original_mono = mono,
                               !.post_world_audio = mono],
                     AnalysisDone(mono))
          [] out = "err" -> send(s1, Status("Analysis error"))
          [] OTHER -> [s1 EXCEPT !.panic = TRUE]

\* A decode error that is logged but not reported.
run_load_file_unreported(st, f) ==
    LET s1 == send(st, Status("Decoding..."))
    IN  IF decode_ok(f)
        THEN run_analyze(send(s1, AudioReady(decode_file(f))), decode_file(f))
        ELSE s1

\* processing.rs 531-562.
run_load_file(st, f) ==
    LET s1 == send(st, Status("Decoding..."))
    IN  IF decode_ok(f)
        THEN run_analyze(send(s1, AudioReady(decode_file(f))), decode_file(f))
        ELSE send(s1, Status("Load error"))

\* The vocoder is skipped on no slider value.
skips_vocoder_never(lw) == FALSE

\* processing.rs 124: latest_world.bypass || latest_world.is_neutral().
skips_vocoder(lw) == lw = "bypass" \/ WorldSliderValues_is_neutral(lw)

\* A failed synthesis that also drops the cached post-vocoder buffer.
synthesis_failed_drops_cache(s) ==
    [send(s, Status("Synthesis error")) EXCEPT !.post_world_audio = NoAudio]

\* processing.rs 144-148: the Err arm of world::synthesize.
synthesis_failed(s) == send(s, Status("Synthesis error"))

\* Stage 3 caching what it sends, effects included.
resynthesize_finish_caches_output(s, world_audio, lf) ==
    send([send(s, Status("Applying effects... (3/3)"))
            EXCEPT !.post_world_audio = apply_fx_chain(world_audio, lf)],
         SynthesisDone(apply_fx_chain(world_audio, lf)))

\* processing.rs 152-158: stage 3.  post_world_audio is assigned the buffer
\* the effects chain is about to read.
resynthesize_finish(s, world_audio, lf) ==
    send([send(s, Status("Applying effects... (3/3)"))
            EXCEPT !.post_world_audio = world_audio],
         SynthesisDone(apply_fx_chain(world_audio, lf)))

\* processing.rs 115-159.
run_resynthesize(st, lw, lf) ==
    IF skips_vocoder(lw)
    THEN IF st.original_mono # NoAudio
         THEN resynthesize_finish(st, st.original_mono, lf)
         ELSE st
    ELSE LET s1 == send(st, Status("Modifying parameters... (1/3)"))
         IN  IF s1.cached_params = "none" THEN s1
             ELSE LET s2 == send(s1, Status("Synthesizing voice... (2/3)"))
                  IN  IF synthesize_ok(s2.cached_params, lw)
                      THEN resynthesize_finish(
                               s2, synthesize(s2.cached_params, lw,
                                              s2.sample_rate), lf)
                      ELSE synthesis_failed(s2)

\* The effects pass run on the mono original instead of the cached
\* post-vocoder buffer.
reapply_effects_on_original(st, lf) ==
    IF st.original_mono # NoAudio
    THEN send(st, SynthesisDone(apply_fx_chain(st.original_mono, lf)))
    ELSE st

\* The effects pass without the test for a cached buffer.
reapply_effects_unguarded(st, lf) ==
    send(st, SynthesisDone(apply_fx_chain(st.post_world_audio, lf)))

\* processing.rs 399-402: the effects-only fast path.
reapply_effects(st, lf) ==
    IF st.post_world_audio # NoAudio
    THEN send(st, SynthesisDone(apply_fx_chain(st.post_world_audio, lf)))
    ELSE st

\* A directory scan whose listing is never sent.
scan_directory_unanswered(st) == st

\* processing.rs 228-241: the two fast I/O commands.
scan_directory(st) == send(st, DirectoryListing)

precheck_audio(st, f) ==
    send(st, IF f = "missing" THEN AudioPrecheckFailed ELSE AudioPrecheckDone)

\* A reset that forgets the parameters but keeps the two audio caches.
reset_caches_keeps_audio(st) == [st EXCEPT !.cached_params = "none"]

\* processing.rs 199-201: the three caches set to None.
reset_caches(st) ==
    [st EXCEPT !.cached_params = "none",
               !.original_mono = NoAudio,
               !.post_world_audio = NoAudio]

\* The panic is caught and the caches are reset, but nothing is reported.
catch_unwind_silent(st) ==
    IF st.panic
    THEN [st EXCEPT !.cached_params = "none",
                    !.original_mono = NoAudio,
                    !.post_world_audio = NoAudio,
                    !.panic = FALSE]
    ELSE st

\* processing.rs 183-203: what processing_loop does with catch_unwind's result.
catch_unwind(st) ==
    IF st.panic
    THEN [reset_caches(send(st, Status("Internal error")))
            EXCEPT !.panic = FALSE]
    ELSE st

-----------------------------------------------------------------------------
(* The worker thread: processing_loop and handle_command.                  *)
(* recv() and every try_recv() of a drain loop are separate steps, so the  *)
(* client can enqueue between them.                                        *)

NoCmd == Cmd("none", "none", "none", "none")

\* What a drained command does to the drain loop's locals: processing.rs
\* 252-258, 306-308, 336-349.
coalesce_world_keeps_first(lw, cmd) == lw

coalesce_world(lw, cmd) == IF cmd.t = "Resynthesize" THEN cmd.w ELSE lw

\* Ignores a ReapplyEffects: only a Resynthesize moves the effects.
coalesce_fx_only_resynthesize(lf, cmd) ==
    IF cmd.t = "Resynthesize" THEN cmd.fx ELSE lf

coalesce_fx(lf, cmd) ==
    IF cmd.t \in {"Resynthesize", "ReapplyEffects"} THEN cmd.fx ELSE lf

\* handle_command's return value, which processing_loop tests at 184-187:
\* true for a Shutdown, dispatched (404) or drained (259, 350, 394).
should_exit_never(cmd) == FALSE

should_exit(cmd) == cmd.t = "Shutdown"

\* The drained commands that end the batch without its pending work: Load
\* (260-271, 309-319, 351-361) and Shutdown.
drain_aborts_only_on_shutdown(cmd) == cmd.t = "Shutdown"

drain_aborts(cmd) == cmd.t \in {"Load", "Shutdown"}

NoBatch ==
    [first |-> NoCmd, q0 |-> <<>>, drained |-> <<>>, rstart |-> 0,
     cached0 |-> "none", late |-> FALSE, runs |-> 0, panicked |-> FALSE,
     done |-> TRUE]

\* The worker as processing_loop creates it (162-165) ...
FreshWorker ==
    [results |-> <<>>, cached_params |-> "none", original_mono |-> NoAudio,
     post_world_audio |-> NoAudio, sample_rate |-> "none", panic |-> FALSE]

\* ... and the states the model starts from: the fresh worker, or the worker
\* once it has loaded and analysed a first file (no command pending).
InitWorker ==
    /\ \E f0 \in {"none", "b"} :
          LET st == IF f0 = "none" THEN FreshWorker
                    ELSE catch_unwind(run_load_file(FreshWorker, f0))
          IN  /\ results = st.results
              /\ cached_params = st.cached_params
              /\ original_mono = st.original_mono
              /\ post_world_audio = st.post_world_audio
              /\ sample_rate = st.sample_rate
    /\ cmdq = <<>>
    /\ wpc = "idle"
    /\ latest_world = "none"
    /\ latest_fx = "none"
    /\ hist = [log |-> <<>>, burst |-> TRUE, r0 |-> Len(results), panics |-> 0]
    /\ batch = NoBatch
    /\ handle = "held"

\* Write a handler's resulting state back, after the catch boundary.
Commit(st) ==
    LET c == catch_unwind(st)
    IN  /\ results' = c.results
        /\ cached_params' = c.cached_params
        /\ original_mono' = c.original_mono
        /\ post_world_audio' = c.post_world_audio
        /\ sample_rate' = c.sample_rate
        /\ hist' = [hist EXCEPT !.panics = IF st.panic THEN @ + 1 ELSE @]

\* ProcessingHandle::send (processing.rs 60-62): never blocks.  Once the
\* worker has returned, cmd_rx is dropped and send's error is ignored: the
\* command goes nowhere.
send_command(c) ==
    /\ wpc # "exited"
    /\ cmdq' = Append(cmdq, c)
    /\ hist' = [hist EXCEPT !.log = Append(@, c),
                            !.burst = @ /\ batch.first = NoCmd]
    /\ batch' = IF batch.done THEN batch ELSE [batch EXCEPT !.late = TRUE]
    /\ UNCHANGED <<results, cached_params, original_mono, post_world_audio,
                   sample_rate, wpc, latest_world, latest_fx, handle>>

\* A client that holds the handle and sends any command.
Send ==
    /\ UNCHANGED <<engineVars, mainVars, timerVars, sent>>
    /\ handle = "held"
    /\ Len(hist.log) < MaxSends
    /\ \E c \in ProcessingCommand : send_command(c)

\* processing.rs 167 (recv) and the outer match of handle_command, 217-406:
\* everything up to the first try_recv of a drain loop.
WorkerDispatch ==
    /\ UNCHANGED <<engineVars, mainVars, timerVars, sent, handle>>
    /\ wpc = "idle"
    /\ cmdq # <<>>
    /\ LET cmd == Head(cmdq)
           st == WorkerState
           drains == \/ cmd.t = "Resynthesize" /\ cached_params # "none"
                     \/ cmd.t = "ReapplyEffects"
           out == CASE cmd.t = "Load" -> run_load_file(st, cmd.f)
                    [] cmd.t = "Analyze" -> run_analyze(st, decode_file(cmd.f))
                    [] cmd.t = "ScanDirectory" -> scan_directory(st)
                    [] cmd.t = "PrecheckAudio" -> precheck_audio(st, cmd.f)
                    [] OTHER -> st
       IN  /\ cmdq' = Tail(cmdq)
           /\ Commit(out)
           /\ wpc' = CASE should_exit(cmd) -> "exited"
                       [] cmd.t = "Resynthesize" /\ drains -> "drainR"
                       [] cmd.t = "ReapplyEffects" -> "drainE"
                       [] OTHER -> "idle"
           /\ latest_world' = IF cmd.t = "Resynthesize" /\ drains THEN cmd.w
                              ELSE latest_world
           /\ latest_fx' = IF drains THEN cmd.fx ELSE latest_fx
           /\ batch' = [first |-> cmd, q0 |-> Tail(cmdq), drained |-> <<>>,
                        rstart |-> Len(results), cached0 |-> cached_params,
                        late |-> FALSE, runs |-> 0, panicked |-> out.panic,
                        done |-> ~drains]

\* One try_recv of the Resynthesize drain loops: processing.rs 250-300 (wpc =
\* "drainR") and its copy nested in the ReapplyEffects arm, 341-392 ("drainER").
DrainResynth ==
    /\ UNCHANGED <<engineVars, mainVars, timerVars, sent, handle>>
    /\ wpc \in {"drainR", "drainER"}
    /\ LET st == WorkerState
       IN  IF cmdq = <<>>
           THEN \* Err(_) => break; then run_resynthesize
                LET runs == wpc = "drainR" \/ cached_params # "none"
                IN  /\ Commit(IF runs
                              THEN run_resynthesize(st, latest_world, latest_fx)
                              ELSE st)
                    /\ wpc' = "idle"
                    /\ batch' = [batch EXCEPT !.done = TRUE,
                                              !.runs = IF runs THEN @ + 1 ELSE @]
                    /\ UNCHANGED <<cmdq, latest_world, latest_fx>>
           ELSE LET cmd == Head(cmdq)
                    out == CASE cmd.t = "Load" -> run_load_file(st, cmd.f)
                             [] cmd.t = "Analyze" ->
                                    run_analyze(st, decode_file(cmd.f))
                             [] cmd.t = "ScanDirectory" -> scan_directory(st)
                             [] cmd.t = "PrecheckAudio" ->
                                    precheck_audio(st, cmd.f)
                             [] OTHER -> st
                    stop == drain_aborts(cmd) \/ out.panic
                IN  /\ cmdq' = Tail(cmdq)
                    /\ Commit(out)
                    /\ latest_world' = coalesce_world(latest_world, cmd)
                    /\ latest_fx' = coalesce_fx(latest_fx, cmd)
                    /\ wpc' = IF should_exit(cmd) THEN "exited"
                              ELSE IF stop THEN "idle" ELSE wpc
                    /\ batch' = [batch EXCEPT !.drained = Append(@, cmd),
                                              !.panicked = out.panic,
                                              !.done = stop]

\* One try_recv of the ReapplyEffects drain loop: processing.rs 303-402.
DrainEffects ==
    /\ UNCHANGED <<engineVars, mainVars, timerVars, sent, handle>>
    /\ wpc = "drainE"
    /\ LET st == WorkerState
       IN  IF cmdq = <<>>
           THEN /\ Commit(reapply_effects(st, latest_fx))
                /\ wpc' = "idle"
                /\ batch' = [batch EXCEPT !.done = TRUE]
                /\ UNCHANGED <<cmdq, latest_world, latest_fx>>
           ELSE LET cmd == Head(cmdq)
                    out == CASE cmd.t = "Load" -> run_load_file(st, cmd.f)
                             [] cmd.t = "Analyze" ->
                                    run_analyze(st, decode_file(cmd.f))
                             [] cmd.t = "ScanDirectory" -> scan_directory(st)
                             [] cmd.t = "PrecheckAudio" ->
                                    precheck_audio(st, cmd.f)
                             [] OTHER -> st
                    stop == drain_aborts(cmd) \/ out.panic
                IN  /\ cmdq' = Tail(cmdq)
                    /\ Commit(out)
                    /\ latest_world' = coalesce_world(latest_world, cmd)
                    /\ latest_fx' = coalesce_fx(latest_fx, cmd)
                    /\ wpc' = CASE should_exit(cmd) -> "exited"
                                [] stop -> "idle"
                                [] cmd.t = "Resynthesize" -> "drainER"
                                [] OTHER -> wpc
                    /\ batch' = [batch EXCEPT !.drained = Append(@, cmd),
                                              !.panicked = out.panic,
                                              !.done = stop]

-----------------------------------------------------------------------------
(* The end of the worker: main's teardown and the closing of the channel.  *)

\* What main sends while its loop runs, in the teardown model.
TeardownCommands ==
    {Load("a"), Resynthesize("neutral", "flat"), ReapplyEffects("wet"),
     ScanDirectory}

\* Drop that joins the thread: it returns once the thread has.
drop_thread_joins(w) == w = "exited"

\* ProcessingHandle::drop, processing.rs 71-80: thread.take() drops the
\* JoinHandle, which detaches the thread w whatever it is doing.  TRUE: the
\* drop returns.
drop_thread(w) == TRUE

\* recv on a channel that never reports the loss of its sender.
recv_never_disconnected(q, h) == IF q # <<>> THEN "Ok" ELSE "blocks"

\* Receiver::recv at processing.rs 167: a queued command comes first; on an
\* empty channel it blocks while the sender lives and fails once the
\* sender (the handle's cmd_tx) is dropped.
recv(q, h) ==
    IF q # <<>> THEN "Ok"
    ELSE IF h = "dropped" THEN "Err" ELSE "blocks"

\* main's loop sends a command (main.rs 156-163, 236-250, 268-271).
MainSend ==
    /\ UNCHANGED <<engineVars, mainVars, timerVars, sent>>
    /\ handle = "held"
    /\ Len(hist.log) < MaxSends
    /\ \E c \in TeardownCommands : send_command(c)

\* main.rs 380: processing.shutdown(), when the loop ends normally.  It
\* sends Shutdown and returns; the send fails silently once the worker has
\* returned.
shutdown ==
    /\ UNCHANGED <<engineVars, mainVars, timerVars, sent>>
    /\ handle = "held"
    /\ handle' = "shutdown"
    /\ IF wpc # "exited"
       THEN /\ cmdq' = Append(cmdq, Shutdown)
            /\ hist' = [hist EXCEPT !.log = Append(@, Shutdown),
                                    !.burst = @ /\ batch.first = NoCmd]
            /\ batch' = IF batch.done THEN batch
                        ELSE [batch EXCEPT !.late = TRUE]
       ELSE UNCHANGED <<cmdq, hist, batch>>
    /\ UNCHANGED <<results, cached_params, original_mono, post_world_audio,
                   sample_rate, wpc, latest_world, latest_fx>>

\* The handle goes out of scope: after shutdown() at main.rs 382, or on an
\* early return by `?` (main.rs 145-147), with no Shutdown sent.  cmd_tx is
\* dropped with it.
DropHandle ==
    /\ UNCHANGED <<engineVars, mainVars, timerVars, sent>>
    /\ handle \in {"held", "shutdown"}
    /\ drop_thread(wpc)
    /\ handle' = "dropped"
    /\ UNCHANGED <<cmdq, results, cached_params, original_mono,
                   post_world_audio, sample_rate, wpc, latest_world,
                   latest_fx, hist, batch>>

\* processing.rs 167 and 205: recv fails, the while loop ends and
\* processing_loop returns.
RecvDisconnected ==
    /\ UNCHANGED <<engineVars, mainVars, timerVars, sent>>
    /\ wpc = "idle"
    /\ recv(cmdq, handle) = "Err"
    /\ wpc' = "exited"
    /\ UNCHANGED <<cmdq, results, cached_params, original_mono,
                   post_world_audio, sample_rate, latest_world, latest_fx,
                   hist, batch, handle>>

-----------------------------------------------------------------------------
(* The playback engine: src/audio/playback.rs.                             *)

\* Bounds of the playback model.
MaxFrames == 2
MaxSwaps == 2
MaxResults == 2

\* Option<T>: None is the empty sequence, Some(x) the one-element sequence.
None == <<>>
Some(x) == <<x>>
is_some(o) == o # <<>>
unwrap(o) == o[1]

Min(a, b) == IF a <= b THEN a ELSE b
Max(a, b) == IF a >= b THEN a ELSE b

\* decoder.rs 14-23: interleaved samples and the channel count.  Samples are
\* non-zero so that they are told apart from silence.
AudioData(ch, s) == [channels |-> ch, samples |-> s]

\* A buffer no file decodes to and no synthesis returns: the slot before a
\* stream exists.
NoBuffer == AudioData(0, <<>>)

\* The files the orchestrator starts from (decode_file accepts no zero-channel
\* track, decoder.rs 136-138), the mono originals an AnalysisDone carries and
\* the mono buffers a SynthesisDone carries (shorter or longer with the speed
\* slider).
FileBuffers == {AudioData(2, <<11, 12, 13, 14>>), AudioData(1, <<21, 22>>)}
AnalysisBuffers == {AudioData(1, <<31, 32>>)}
SynthesisBuffers == {AudioData(1, <<41>>), AudioData(1, <<51, 52, 53>>)}

\* The buffers write_audio_data is tried on: those above, the empty ones
\* and the zero-channel ones its guard at 259 is for.
CallbackBuffers ==
    FileBuffers \cup SynthesisBuffers \cup
    {AudioData(0, <<>>), AudioData(0, <<61>>), AudioData(1, <<>>),
     AudioData(2, <<>>)}

Gains == {1, 2}

\* T::from_sample(0.0f32), playback.rs 232.
silence == 0

Silent(n) == [i \in 1..n |-> silence]

\* RwLock::try_read as the callback uses it (243-251): fails while a writer
\* holds the lock, never waits.
try_read_ignores_writer(lock) == "Ok"
try_read(lock) == IF lock.writer THEN "Err" ELSE "Ok"

\* AtomicBool::fetch_xor: what the flag holds afterwards, and the value the
\* call returns (the one before).
fetch_xor(p, v) == [stored |-> p # v, previous |-> p]

\* Returns what fetch_xor returns: the value before the call.
toggle_playing_returns_previous(p) == fetch_xor(p, TRUE).previous

\* PlaybackState::toggle_playing (44-47): the value it returns.
toggle_playing(p) == ~fetch_xor(p, TRUE).previous

\* isize and usize are ISIZE_BITS wide in the model.
ISIZE_BITS == 5
ISIZE_MAX == 2 ^ (ISIZE_BITS - 1) - 1
ISIZE_MIN == -(2 ^ (ISIZE_BITS - 1))

\* `u as isize`: the same bits, read as a signed number.
as_isize(u) == IF u > ISIZE_MAX THEN u - 2 ^ ISIZE_BITS ELSE u

\* Ord::clamp.
clamp(x, lo, hi) == IF x < lo THEN lo ELSE IF x > hi THEN hi ELSE x

\* isize::wrapping_add.
wrapping_add(a, b) ==
    ((a + b - ISIZE_MIN) % (2 ^ ISIZE_BITS)) + ISIZE_MIN

\* isize::saturating_add.
saturating_add(a, b) == clamp(a + b, ISIZE_MIN, ISIZE_MAX)

\* PlaybackState::seek_by_samples (50-55), from the value it loaded.
seek_by_samples(current, offset, max_samples) ==
    clamp(saturating_add(as_isize(current), offset), 0, as_isize(max_samples))

\* Seconds are counted in steps of 1/SECS_DEN.
SECS_DEN == 2

\* `f as isize` for a float in range: the fraction is dropped, towards zero.
trunc_div(x, d) == IF x >= 0 THEN x \div d ELSE -((-x) \div d)

\* PlaybackState::seek_by_secs (58-62): the offset it hands to
\* seek_by_samples for secs = n / SECS_DEN.  The product is clamped to the
\* isize range before the cast.
secs_to_offset(n, rate, channels) ==
    clamp(trunc_div(n * rate * channels, SECS_DEN),
          ISIZE_MIN, ISIZE_MAX)

\* swap_audio (223-226): the write guard's slot is overwritten.  The function
\* has the two parameters audio_lock and new_audio, and stores nothing else.
swap_audio(lock, new_audio) == [lock EXCEPT !.data = new_audio]

\* playback.rs 271-280: what the head of the frame loop decides.
frame_start_never_wraps(pos, total_samples, looping) ==
    IF pos >= total_samples THEN "silence" ELSE "play"
frame_start(pos, total_samples, looping) ==
    IF pos >= total_samples
    THEN IF looping /\ total_samples > 0 THEN "wrap" ELSE "silence"
    ELSE "play"

\* playback.rs 282-291: one output frame read at pos.
read_frame(samples, ac, dc, gain, pos) ==
    [d \in 1..dc |->
        LET src_ch == (d - 1) % ac
            idx == pos + src_ch
        IN  IF idx < Len(samples) THEN samples[idx + 1] * gain
            ELSE silence * gain]

\* playback.rs 270-293: the loop over output.chunks_mut(dc), n frames left.
RECURSIVE render_frames(_, _, _, _, _, _, _, _)
render_frames(samples, ac, dc, looping, gain, pos, out, n) ==
    IF n = 0 THEN [pos |-> pos, out |-> out]
    ELSE LET how == frame_start(pos, Len(samples), looping)
             p == IF how = "wrap" THEN 0 ELSE pos
         IN  IF how = "silence"
             THEN render_frames(samples, ac, dc, looping, gain, pos,
                                out \o Silent(dc), n - 1)
             ELSE render_frames(samples, ac, dc, looping, gain, p + ac,
                                out \o read_frame(samples, ac, dc, gain, p),
                                n - 1)

IdleCallback ==
    [pc |-> "idle", frames |-> 0, pos |-> 0, gain |-> 0, looping |-> FALSE,
     pos_gen |-> 0, buf_gen |-> 0]

NoReturn ==
    [path |-> "none", out |-> <<>>, pos0 |-> 0, pos1 |-> 0,
     data |-> NoBuffer, dc |-> 0, frames |-> 0, looping |-> FALSE, gain |-> 0]

\* What an invocation that returns early leaves behind: silence everywhere,
\* nothing stored.
EarlyReturn(path, n) ==
    [path |-> path,
     out |-> Silent(IF device_channels = 0 THEN n ELSE n * device_channels),
     pos0 |-> position, pos1 |-> position, data |-> audio_lock.data,
     dc |-> device_channels, frames |-> n, looping |-> loop_enabled,
     gain |-> live_gain]

\* write_audio_data, 228-251: the playing check and the try_read.  cpal hands
\* it a slice of n whole frames.
CallbackTryRead ==
    /\ cb.pc = "idle"
    /\ ret.path = "none"
    /\ \E n \in 1..MaxFrames :
          IF ~playing
          THEN /\ ret' = EarlyReturn("paused", n)
               /\ UNCHANGED <<audio_lock, cb>>
          ELSE IF try_read(audio_lock) = "Err"
          THEN /\ ret' = EarlyReturn("contended", n)
               /\ UNCHANGED <<audio_lock, cb>>
          ELSE /\ audio_lock' = [audio_lock EXCEPT !.readers = @ + 1]
               /\ cb' = [IdleCallback EXCEPT !.pc = "locked", !.frames = n]
               /\ UNCHANGED ret
    /\ UNCHANGED <<position, playing, loop_enabled, live_gain, device_channels>>
    /\ UNCHANGED <<workerVars, mainVars, timerVars, sent>>

\* write_audio_data, 253-268: the channel guard, then the three atomic loads.
CallbackLoad ==
    /\ cb.pc = "locked"
    /\ IF audio_lock.data.channels = 0 \/ device_channels = 0
       THEN /\ ret' = EarlyReturn("nochannels", cb.frames)
            /\ audio_lock' = [audio_lock EXCEPT !.readers = @ - 1]
            /\ cb' = IdleCallback
       ELSE /\ cb' = [cb EXCEPT !.pc = "loaded", !.pos = position,
                                !.gain = live_gain, !.looping = loop_enabled,
                                !.pos_gen = pgh.pos_gen, !.buf_gen = pgh.swaps]
            /\ UNCHANGED <<audio_lock, ret>>
    /\ UNCHANGED <<position, playing, loop_enabled, live_gain, device_channels>>
    /\ UNCHANGED <<workerVars, app, mpc, pgh, timerVars, sent>>

\* A callback that stops playback when it runs off the end of the buffer.
CallbackStoreStopsAtEnd ==
    /\ cb.pc = "loaded"
    /\ LET data == audio_lock.data
           r == render_frames(data.samples, data.channels, device_channels,
                              cb.looping, cb.gain, cb.pos, <<>>, cb.frames)
       IN  /\ position' = r.pos
           /\ playing' = (playing /\ r.pos < Len(data.samples))
           /\ ret' = [path |-> "rendered", out |-> r.out, pos0 |-> cb.pos,
                      pos1 |-> r.pos, data |-> data, dc |-> device_channels,
                      frames |-> cb.frames, looping |-> cb.looping,
                      gain |-> cb.gain]
    /\ audio_lock' = [audio_lock EXCEPT !.readers = @ - 1]
    /\ cb' = IdleCallback
    /\ pgh' = [pgh EXCEPT !.pos_gen = pgh.swaps]
    /\ UNCHANGED <<loop_enabled, live_gain, device_channels>>
    /\ UNCHANGED <<workerVars, app, mpc, timerVars, sent>>

\* write_audio_data, 270-296: the frame loop, the store of position and the
\* drop of the read guard.
CallbackStore ==
    /\ cb.pc = "loaded"
    /\ LET data == audio_lock.data
           r == render_frames(data.samples, data.channels, device_channels,
                              cb.looping, cb.gain, cb.pos, <<>>, cb.frames)
       IN  /\ position' = r.pos
           /\ ret' = [path |-> "rendered", out |-> r.out, pos0 |-> cb.pos,
                      pos1 |-> r.pos, data |-> data, dc |-> device_channels,
                      frames |-> cb.frames, looping |-> cb.looping,
                      gain |-> cb.gain]
    /\ audio_lock' = [audio_lock EXCEPT !.readers = @ - 1]
    /\ cb' = IdleCallback
    /\ pgh' = [pgh EXCEPT !.pos_gen = pgh.swaps]
    /\ UNCHANGED <<playing, loop_enabled, live_gain, device_channels>>
    /\ UNCHANGED <<workerVars, app, mpc, timerVars, sent>>

\* The invocation has returned; cpal calls again when it needs more frames.
CallbackReturn ==
    /\ ret.path # "none"
    /\ ret' = NoReturn
    /\ UNCHANGED <<audio_lock, position, playing, loop_enabled, live_gain,
                   device_channels, cb>>
    /\ UNCHANGED <<workerVars, mainVars, timerVars, sent>>

-----------------------------------------------------------------------------
(* The orchestrator's handlers that touch the playback engine: src/main.rs *)
(* and src/input/handler.rs.                                               *)

FileInfo(audio) ==
    [channels |-> audio.channels, total_samples |-> Len(audio.samples)]

IdleMain ==
    [pc |-> "idle", kind |-> "none", new_audio |-> NoBuffer, cur |-> 0,
     new_pos |-> 0, offset |-> 0, args |-> <<>>, result |-> <<>>]

\* AppState::new (app.rs 150-175).  file_info: None is the FileInfo of no
\* buffer, which has no channels; a decoded file has at least one.
NoApp ==
    [audio_data |-> None, original_audio |-> None, ab_original |-> FALSE,
     file_info |-> FileInfo(NoBuffer),
     processing_status |-> None, status_message |-> None,
     world_sliders |-> "neutral", effects_sliders |-> "flat"]

\* Where the user may have left the sliders before loading a file: untouched,
\* or at half speed with an effect on.  The Resynthesize their timer sent
\* found no analysis cached and was discarded (processing.rs 242-245).
SliderSettings == {<<"neutral", "flat">>, <<"slow", "wet">>}

with_sliders(a, s) ==
    [a EXCEPT !.world_sliders = s[1], !.effects_sliders = s[2]]

\* An AnalysisDone arm that resynthesizes with the default values.
world_slider_values_default(a) == "neutral"

\* app.rs 351-361: the vocoder values are read from the sliders.
world_slider_values(a) == a.world_sliders

\* app.rs 333-348: the effects parameters are read from the sliders at the
\* moment of the call.
effects_params_default(a) == "flat"

effects_params(a) == a.effects_sliders

NoHistory ==
    [swaps |-> 0, nres |-> 0, pos_gen |-> 0, supplied |-> 0,
     loads |-> 0, errs |-> {}, epos |-> 0,
     bpast |-> FALSE]

\* History of an error being handled: which kinds have been, and where the
\* playback position is when the latest one is.
error_handled(h, kind) ==
    [h EXCEPT !.errs = @ \cup {kind}, !.epos = position]

\* History of a stream being built: whether the latest one found the
\* playback paused past the start of the buffer.
stream_built(h) ==
    [h EXCEPT !.bpast = (position > 0 /\ ~playing)]

\* PlaybackState.audio_lock is Some once a stream has been built.
lock_is_some(l) == l.data # NoBuffer

set_status_discarding(a, msg) ==
    [NoApp EXCEPT !.status_message = Some(msg)]

\* AppState::set_status (app.rs 299-302).
set_status(a, msg) ==
    [a EXCEPT !.status_message = Some(msg)]

\* The main thread is at pc.  A callback invocation that has just returned is
\* looked at (ret) before either thread takes its next step.
MainAt(pc) == mpc.pc = pc /\ ret.path = "none"

\* ProcessingHandle::send as the orchestrator calls it.
processing_send(c) == sent' = Append(sent, c)

\* main.rs 180-183: the position is rescaled only when the channel counts
\* differ and neither is zero.
channels_changed(old_channels, new_channels) ==
    old_channels # new_channels /\ old_channels > 0 /\ new_channels > 0

\* Keeps the sample index and only clamps it.
reconcile_channels_keeps_index(current_pos, old_ch, new_ch, new_len) ==
    Min(current_pos, new_len)

\* main.rs 186-190: position rescaled for a channel-count change.
reconcile_channels(current_pos, old_channels, new_channels, new_len) ==
    Min((current_pos \div old_channels) * new_channels, new_len)

\* ---- f64 arithmetic, as far as main.rs 346-351 uses it ----
\* A non-negative f64 is [bits, exp]: the significand as a sequence of binary
\* digits, most significant first and starting with a 1, at most F64_DIGITS
\* of them, and the power of two of its last digit.  Zero has no digits.
\* Long numbers are worked on LIMB_BITS digits at a time.
F64_DIGITS == 53
LIMB_BITS == 16
LIMB == 2 ^ LIMB_BITS
DIV_LIMBS == 5

F64_ZERO == [bits |-> <<>>, exp |-> 0]

\* The number of binary digits of n < 2^30.
BitLen(n) == CHOOSE k \in 0..30 : 2 ^ k > n /\ (k = 0 \/ 2 ^ (k - 1) <= n)

\* The binary digits of n < 2^30, none for 0.
BitsOf(n) == [i \in 1..BitLen(n) |-> (n \div 2 ^ (BitLen(n) - i)) % 2]

\* The binary digits of a sequence of limbs, LIMB_BITS for each.
LimbBits(limbs) ==
    [i \in 1..(LIMB_BITS * Len(limbs)) |->
        (limbs[(i - 1) \div LIMB_BITS + 1]
           \div 2 ^ (LIMB_BITS - 1 - ((i - 1) % LIMB_BITS))) % 2]

\* The value of at most LIMB_BITS binary digits.
RECURSIVE ValOf(_)
ValOf(bits) ==
    IF bits = <<>> THEN 0
    ELSE 2 * ValOf(SubSeq(bits, 1, Len(bits) - 1)) + bits[Len(bits)]

\* The limbs of a sequence of at most k * LIMB_BITS binary digits.
LimbsOf(bits, k) ==
    LET pad == k * LIMB_BITS - Len(bits)
        digit(i) == IF i <= pad THEN 0 ELSE bits[i - pad]
    IN  [j \in 1..k |->
            ValOf([i \in 1..LIMB_BITS |-> digit((j - 1) * LIMB_BITS + i)])]

\* The value of a sequence of binary digits that is below 2^30.
IntOf(bits) == LET l == LimbsOf(bits, 2) IN l[1] * LIMB + l[2]

\* The digits without their leading zeros.
Strip(bits) ==
    IF \A i \in 1..Len(bits) : bits[i] = 0 THEN <<>>
    ELSE LET f == CHOOSE i \in 1..Len(bits) :
                     bits[i] = 1 /\ \A j \in 1..(i - 1) : bits[j] = 0
         IN  SubSeq(bits, f, Len(bits))

\* bits + 1, for a sequence of binary digits; one digit longer on overflow.
IncBits(bits) ==
    IF \A i \in 1..Len(bits) : bits[i] = 1
    THEN <<1>> \o [i \in 1..Len(bits) |-> 0]
    ELSE LET z == CHOOSE i \in 1..Len(bits) :
                     bits[i] = 0 /\ \A j \in (i + 1)..Len(bits) : bits[j] = 1
         IN  [i \in 1..Len(bits) |->
                 IF i < z THEN bits[i] ELSE IF i = z THEN 1 ELSE 0]

\* Round to nearest, ties to even: the digits of an exact result (sticky
\* says that non-zero digits follow them) cut to F64_DIGITS.
f64_nearest(bits, exp, sticky) ==
    LET L == Len(bits)
    IN  IF L <= F64_DIGITS THEN [bits |-> bits, exp |-> exp]
        ELSE LET keep == SubSeq(bits, 1, F64_DIGITS)
                 guard == bits[F64_DIGITS + 1]
                 rest == sticky \/ \E i \in (F64_DIGITS + 2)..L : bits[i] = 1
                 up == guard = 1 /\ (rest \/ keep[F64_DIGITS] = 1)
                 inc == IncBits(keep)
                 e == exp + (L - F64_DIGITS)
             IN  IF ~up THEN [bits |-> keep, exp |-> e]
                 ELSE IF Len(inc) > F64_DIGITS
                      THEN [bits |-> SubSeq(inc, 1, F64_DIGITS), exp |-> e + 1]
                      ELSE [bits |-> inc, exp |-> e]

\* Long division of r / q for r < q < 2^14: k limbs of the fraction and the
\* remainder after them.
RECURSIVE DivLimbs(_, _, _)
DivLimbs(r, q, k) ==
    IF k = 0 THEN [limbs |-> <<>>, rem |-> r]
    ELSE LET tail == DivLimbs((r * LIMB) % q, q, k - 1)
         IN  [limbs |-> <<(r * LIMB) \div q>> \o tail.limbs, rem |-> tail.rem]

\* `p as f64 / q as f64` for integers 0 <= p < 2^14 and 0 < q < 2^14.
f64_div(p, q) ==
    IF p = 0 THEN F64_ZERO
    ELSE LET d == DivLimbs(p % q, q, DIV_LIMBS)
         IN  f64_nearest(Strip(BitsOf(p \div q) \o LimbBits(d.limbs)),
                         -(DIV_LIMBS * LIMB_BITS), d.rem # 0)

\* limbs * n + carry for n < 2^12, the last limb first.
RECURSIVE MulLimbs(_, _, _)
MulLimbs(limbs, n, carry) ==
    IF limbs = <<>> THEN <<carry>>
    ELSE LET acc == limbs[Len(limbs)] * n + carry
         IN  Append(MulLimbs(SubSeq(limbs, 1, Len(limbs) - 1), n,
                             acc \div LIMB),
                    acc % LIMB)

\* `x * n as f64` for an integer 0 <= n < 2^12.
f64_mul(x, n) ==
    IF x = F64_ZERO \/ n = 0 THEN F64_ZERO
    ELSE f64_nearest(Strip(LimbBits(MulLimbs(LimbsOf(x.bits, 4), n, 0))),
                     x.exp, FALSE)

\* f64::round, then `as usize`, for a value below 2^30: the nearest integer,
\* a half going away from zero.
f64_round(x) ==
    IF x.exp >= 0 THEN IntOf(x.bits) * 2 ^ x.exp
    ELSE LET L == Len(x.bits)
             k == -x.exp
         IN  IF k > L THEN 0
             ELSE IntOf(SubSeq(x.bits, 1, L - k)) + x.bits[L - k + 1]

\* Keeps the sample index and only clamps it.
ab_new_pos_keeps_index(pos, old_len, new_len) == Min(pos, new_len)

\* main.rs 344-356: (fraction * new_len).round().min(new_len) in f64, the
\* fraction pos / old_len, or 0.0 when old_len is 0; the position clamped
\* when the lengths are equal.
ab_new_pos(pos, old_len, new_len) ==
    IF old_len # new_len
    THEN LET fraction == IF old_len > 0 THEN f64_div(pos, old_len)
                         ELSE F64_ZERO
         IN  Min(f64_round(f64_mul(fraction, new_len)), new_len)
    ELSE Min(pos, new_len)

\* main.rs 157-158: what the AnalysisDone arm assigns.
on_analysis_done(mono_original) ==
    app' = [app EXCEPT !.processing_status = None,
                       !.original_audio = Some(mono_original)]

\* main.rs 156-163: AnalysisDone stores the mono original and sends a
\* Resynthesize at once.
RecvAnalysisDone ==
    /\ MainAt("idle")
    /\ pgh.nres < MaxResults
    /\ \E mono_original \in AnalysisBuffers : on_analysis_done(mono_original)
    /\ processing_send("Resynthesize")
    /\ pgh' = [pgh EXCEPT !.nres = @ + 1]
    /\ UNCHANGED <<mpc, workerVars, engineVars, timerVars>>

\* A SynthesisDone arm that takes the swap path whatever the A/B flag says.
on_synthesis_done_always_swaps(new_audio) ==
    /\ pgh.swaps < MaxSwaps
    /\ mpc' = [IdleMain EXCEPT !.pc = "sd_clamp", !.kind = "SynthesisDone",
                               !.new_audio = new_audio]
    /\ app' = [app EXCEPT !.processing_status = None,
                          !.status_message = None]

\* main.rs 164-197: SynthesisDone clears both status texts, then runs up to
\* the load of position at 187 (channel counts differ) or up to the file_info
\* update (they do not; with no file_info there is nothing to update).
on_synthesis_done(new_audio) ==
    LET cleared == [app EXCEPT !.processing_status = None,
                               !.status_message = None]
    IN
    IF app.ab_original
    THEN /\ app' = [cleared EXCEPT !.audio_data = Some(new_audio)]
         /\ UNCHANGED mpc
    ELSE LET old_channels == app.file_info.channels
             new_channels == new_audio.channels
         IN  /\ pgh.swaps < MaxSwaps
             /\ IF channels_changed(old_channels, new_channels)
                THEN /\ mpc' = [IdleMain EXCEPT !.pc = "sd_loaded",
                                    !.kind = "SynthesisDone",
                                    !.new_audio = new_audio,
                                    !.cur = position]
                     /\ app' = cleared
                ELSE /\ mpc' = [IdleMain EXCEPT !.pc = "sd_clamp",
                                    !.kind = "SynthesisDone",
                                    !.new_audio = new_audio]
                     /\ app' = [cleared EXCEPT
                                  !.file_info =
                                     IF app.file_info = FileInfo(NoBuffer)
                                     THEN @ ELSE FileInfo(new_audio)]

RecvSynthesisDone ==
    /\ MainAt("idle")
    /\ pgh.nres < MaxResults
    /\ \E new_audio \in SynthesisBuffers : on_synthesis_done(new_audio)
    /\ pgh' = [pgh EXCEPT !.nres = @ + 1]
    /\ UNCHANGED <<workerVars, engineVars, timerVars, sent>>

\* main.rs 188-196: the store of the rescaled position, outside any lock.
SynthesisDoneStore ==
    /\ MainAt("sd_loaded")
    /\ position' = reconcile_channels(mpc.cur, app.file_info.channels,
                                      mpc.new_audio.channels,
                                      Len(mpc.new_audio.samples))
    /\ app' = [app EXCEPT !.file_info = FileInfo(mpc.new_audio)]
    /\ mpc' = [mpc EXCEPT !.pc = "sd_clamp"]
    /\ pgh' = [pgh EXCEPT !.pos_gen = pgh.swaps + 1]
    /\ UNCHANGED <<audio_lock, playing, loop_enabled, live_gain,
                   device_channels, cb, ret>>
    /\ UNCHANGED <<workerVars, timerVars, sent>>

\* main.rs 199-205 and 212: clamped_pos, from a fresh load of position; then
\* the swap when there is a lock, the rebuild when there is none.
SynthesisDoneClamp ==
    /\ MainAt("sd_clamp")
    /\ mpc' = [mpc EXCEPT !.pc = IF lock_is_some(audio_lock)
                                 THEN "swap_lock" ELSE "rebuild",
                          !.new_pos = Min(position, Len(mpc.new_audio.samples))]
    /\ UNCHANGED <<app, pgh, workerVars, engineVars, timerVars, sent>>

\* A rebuild that starts over as start_playback does (playback.rs 105-151).
rebuild_stream_fresh(audio, ok) ==
    /\ audio_lock' = IF ok
                     THEN [data |-> audio, writer |-> FALSE, readers |-> 0]
                     ELSE audio_lock
    /\ IF ok THEN device_channels' \in {1, 2} ELSE UNCHANGED device_channels
    /\ position' = IF ok THEN 0 ELSE position
    /\ playing' = IF ok THEN TRUE ELSE playing
    /\ UNCHANGED <<loop_enabled, live_gain, cb, ret>>

\* rebuild_stream (playback.rs 174-218): the device, its config, the stream
\* or its start can fail, each before state.audio_lock is assigned; on
\* success the lock holds the new buffer and the atomics are the old ones.
rebuild_stream(audio, ok) ==
    /\ audio_lock' = IF ok
                     THEN [data |-> audio, writer |-> FALSE, readers |-> 0]
                     ELSE audio_lock
    /\ IF ok THEN device_channels' \in {1, 2} ELSE UNCHANGED device_channels
    /\ UNCHANGED <<position, playing, loop_enabled, live_gain, cb, ret>>

\* main.rs 212-226: Ok stores the new buffer as app.audio_data, Err only
\* sets the status line.
RebuildStream ==
    /\ MainAt("rebuild")
    /\ \E ok \in BOOLEAN :
          /\ rebuild_stream(mpc.new_audio, ok)
          /\ app' = IF ok
                    THEN [app EXCEPT !.audio_data = Some(mpc.new_audio)]
                    ELSE set_status(app, "Playback error")
          /\ pgh' = IF ok THEN stream_built(pgh)
                    ELSE error_handled(pgh, "rebuild")
    /\ mpc' = IdleMain
    /\ UNCHANGED <<workerVars, timerVars, sent>>

\* main.rs 229-231: a Status result replaces the processing status text.
RecvStatus ==
    /\ MainAt("idle")
    /\ app' = [app EXCEPT !.processing_status = Some("msg")]
    /\ pgh' = error_handled(pgh, "status")
    /\ UNCHANGED <<mpc, workerVars, engineVars, timerVars, sent>>

\* handler.rs 587-599 and main.rs 327-363: the 'a' key flips ab_original when
\* both buffers and the lock exist; ToggleAB reads old_len under a read lock,
\* computes new_pos and updates file_info.
KeyToggleAB ==
    /\ MainAt("idle")
    /\ is_some(app.audio_data) /\ is_some(app.original_audio)
    /\ lock_is_some(audio_lock)
    /\ pgh.swaps < MaxSwaps
    /\ LET ab == ~app.ab_original
           audio == unwrap(IF ab THEN app.original_audio ELSE app.audio_data)
           old_len == Len(audio_lock.data.samples)
           new_len == Len(audio.samples)
       IN  /\ app' = [app EXCEPT !.ab_original = ab,
                                 !.file_info = FileInfo(audio)]
           /\ mpc' = [IdleMain EXCEPT !.pc = "swap_lock", !.kind = "ToggleAB",
                          !.new_audio = audio,
                          !.new_pos = ab_new_pos(position, old_len, new_len)]
    /\ UNCHANGED <<pgh, workerVars, engineVars, timerVars, sent>>

\* swap_audio, playback.rs 224: audio_lock.write() waits for the readers.
SwapLock ==
    /\ MainAt("swap_lock")
    /\ audio_lock.readers = 0
    /\ audio_lock' = [audio_lock EXCEPT !.writer = TRUE]
    /\ mpc' = [mpc EXCEPT !.pc = "swap_write"]
    /\ UNCHANGED <<position, playing, loop_enabled, live_gain,
                   device_channels, cb, ret>>
    /\ UNCHANGED <<app, pgh, workerVars, timerVars, sent>>

\* A swap that also pauses playback.
SwapWritePausing ==
    /\ MainAt("swap_write")
    /\ audio_lock' = [swap_audio(audio_lock, mpc.new_audio)
                        EXCEPT !.writer = FALSE]
    /\ mpc' = [mpc EXCEPT !.pc = "swapped", !.cur = position]
    /\ pgh' = [pgh EXCEPT !.swaps = @ + 1, !.supplied = mpc.new_pos]
    /\ playing' = FALSE
    /\ UNCHANGED <<position, loop_enabled, live_gain, device_channels, cb, ret>>
    /\ UNCHANGED <<app, workerVars, timerVars, sent>>

\* swap_audio, playback.rs 225-226: the slot is overwritten and the guard
\* dropped.  The position the caller computed (mpc.new_pos) does not reach
\* swap_audio.  mpc.cur keeps the position as it is when swap_audio returns.
SwapWrite ==
    /\ MainAt("swap_write")
    /\ audio_lock' = [swap_audio(audio_lock, mpc.new_audio)
                        EXCEPT !.writer = FALSE]
    /\ mpc' = [mpc EXCEPT !.pc = "swapped", !.cur = position]
    /\ pgh' = [pgh EXCEPT !.swaps = @ + 1, !.supplied = mpc.new_pos]
    /\ UNCHANGED <<position, playing, loop_enabled, live_gain,
                   device_channels, cb, ret>>
    /\ UNCHANGED <<app, workerVars, timerVars, sent>>

\* main.rs 211 after a SynthesisDone swap, 371-373 after an A/B swap: the
\* handler ends.
SwapReturn ==
    /\ MainAt("swapped")
    /\ app' = IF mpc.kind = "SynthesisDone"
              THEN [app EXCEPT !.audio_data = Some(mpc.new_audio)]
              ELSE app
    /\ mpc' = IdleMain
    /\ UNCHANGED <<pgh, workerVars, engineVars, timerVars, sent>>

\* handler.rs 460-511, 549-569 with playback.rs 52 and 58-62: a seek of one
\* frame either way, up to the load of position.
KeySeek ==
    /\ MainAt("idle")
    /\ \E dir \in {-1, 1} :
          mpc' = [IdleMain EXCEPT !.pc = "seek", !.kind = "seek",
                      !.cur = position,
                      !.offset = dir * app.file_info.channels]
    /\ UNCHANGED <<app, pgh, workerVars, engineVars, timerVars, sent>>

\* playback.rs 53-54: the clamp and the store.
SeekStore ==
    /\ MainAt("seek")
    /\ position' = seek_by_samples(mpc.cur, mpc.offset,
                                   app.file_info.total_samples)
    /\ mpc' = IdleMain
    /\ pgh' = [pgh EXCEPT !.pos_gen = pgh.swaps]
    /\ UNCHANGED <<audio_lock, playing, loop_enabled, live_gain,
                   device_channels, cb, ret>>
    /\ UNCHANGED <<app, workerVars, timerVars, sent>>

\* handler.rs 571-586: Home stores 0, End the start of the last frame.
KeyHomeEnd ==
    /\ MainAt("idle")
    /\ \E key \in {"Home", "End"} :
          position' = IF key = "Home" THEN 0
                      ELSE Max(0, app.file_info.total_samples
                                  - app.file_info.channels)
    /\ pgh' = [pgh EXCEPT !.pos_gen = pgh.swaps]
    /\ UNCHANGED <<audio_lock, playing, loop_enabled, live_gain,
                   device_channels, cb, ret>>
    /\ UNCHANGED <<app, mpc, workerVars, timerVars, sent>>

\* handler.rs 417-420 (space), 542-548 ('r') and main.rs 289-293 (LiveGain).
KeyTransport ==
    /\ MainAt("idle")
    /\ \/ /\ playing' = fetch_xor(playing, TRUE).stored
          /\ UNCHANGED <<loop_enabled, live_gain>>
       \/ /\ loop_enabled' = ~loop_enabled
          /\ UNCHANGED <<playing, live_gain>>
       \/ /\ \E linear \in Gains \ {live_gain} : live_gain' = linear
          /\ UNCHANGED <<playing, loop_enabled>>
    /\ UNCHANGED <<audio_lock, position, device_channels, cb, ret>>
    /\ UNCHANGED <<mainVars, workerVars, timerVars, sent>>

-----------------------------------------------------------------------------
(* The methods of PlaybackState, each called as a whole by one thread: a   *)
(* position is stored, then a seek is called on it with any arguments;     *)
(* toggle_playing is called at any time.  mpc keeps the last call: its     *)
(* name, the position it found (cur), its arguments and what it returned.  *)

\* Bounds of the arguments.
MaxSecs == 5
SampleRates == {0, 1, 7}

\* position.store(p), as Home and End do (handler.rs 571-586): on a fresh
\* state or after a toggle.
StorePosition ==
    /\ MainAt("idle")
    /\ mpc.kind \in {"none", "toggle_playing"}
    /\ \E p \in 0..ISIZE_MAX :
          /\ position' = p
          /\ mpc' = [IdleMain EXCEPT !.kind = "store", !.args = <<p>>]
    /\ UNCHANGED <<audio_lock, playing, loop_enabled, live_gain,
                   device_channels, cb, ret>>
    /\ UNCHANGED <<app, pgh, workerVars, timerVars, sent>>

\* playback.rs 50-55.
CallSeekBySamples ==
    /\ MainAt("idle")
    /\ mpc.kind = "store"
    /\ \E offset \in ISIZE_MIN..ISIZE_MAX, max_samples \in 0..ISIZE_MAX :
          /\ position' = seek_by_samples(position, offset, max_samples)
          /\ mpc' = [IdleMain EXCEPT !.kind = "seek_by_samples",
                                     !.cur = position,
                                     !.args = <<offset, max_samples>>]
    /\ UNCHANGED <<audio_lock, playing, loop_enabled, live_gain,
                   device_channels, cb, ret>>
    /\ UNCHANGED <<app, pgh, workerVars, timerVars, sent>>

\* playback.rs 58-63.
CallSeekBySecs ==
    /\ MainAt("idle")
    /\ mpc.kind = "store"
    /\ \E n \in (-MaxSecs)..MaxSecs, rate \in SampleRates,
          channels \in 0..2, max_samples \in 0..ISIZE_MAX :
          /\ position' = seek_by_samples(position,
                                         secs_to_offset(n, rate, channels),
                                         max_samples)
          /\ mpc' = [IdleMain EXCEPT !.kind = "seek_by_secs",
                                     !.cur = position,
                                     !.args = <<n, rate, channels,
                                                max_samples>>]
    /\ UNCHANGED <<audio_lock, playing, loop_enabled, live_gain,
                   device_channels, cb, ret>>
    /\ UNCHANGED <<app, pgh, workerVars, timerVars, sent>>

\* playback.rs 44-47.
CallTogglePlaying ==
    /\ MainAt("idle")
    /\ playing' = fetch_xor(playing, TRUE).stored
    /\ mpc' = [IdleMain EXCEPT !.kind = "toggle_playing", !.cur = position,
                               !.args = <<playing>>,
                               !.result = <<toggle_playing(playing)>>]
    /\ UNCHANGED <<audio_lock, position, loop_enabled, live_gain,
                   device_channels, cb, ret>>
    /\ UNCHANGED <<app, pgh, workerVars, timerVars, sent>>

-----------------------------------------------------------------------------
(* The two position rescales of main.rs, on inputs of their own.           *)

MaxPosition == 200
MaxChannels == 2

\* Sample counts of the new buffer, and the lengths and positions of an A/B
\* toggle.
RescaleLens == {0, 1, 99, 100, 101, 400}
ABLens == {0, 1, 3, 10, 45, 500, 1000}
ABPositions == (0..10) \cup {250, 1000}

\* main.rs 176-192: the position a SynthesisDone leaves before the clamp.
CallReconcileChannels ==
    /\ MainAt("idle")
    /\ mpc.kind = "none"
    /\ \E current_pos \in 0..MaxPosition, new_len \in RescaleLens,
          old_channels \in 0..MaxChannels, new_channels \in 0..MaxChannels :
          mpc' = [IdleMain EXCEPT
                    !.kind = "reconcile_channels",
                    !.args = <<current_pos, old_channels, new_channels,
                               new_len>>,
                    !.result =
                       <<IF channels_changed(old_channels, new_channels)
                         THEN reconcile_channels(current_pos, old_channels,
                                                 new_channels, new_len)
                         ELSE current_pos>>]
    /\ UNCHANGED <<app, pgh, workerVars, engineVars, timerVars, sent>>

\* main.rs 336-356: the position an A/B toggle hands to the swap.
CallAbNewPos ==
    /\ MainAt("idle")
    /\ mpc.kind = "none"
    /\ \E pos \in ABPositions, old_len \in ABLens, new_len \in ABLens :
          mpc' = [IdleMain EXCEPT
                    !.kind = "ab_new_pos",
                    !.args = <<pos, old_len, new_len>>,
                    !.result = <<ab_new_pos(pos, old_len, new_len)>>]
    /\ UNCHANGED <<app, pgh, workerVars, engineVars, timerVars, sent>>

-----------------------------------------------------------------------------
(* The event loop's debounce timers: src/main.rs 114-378.  Time is in ms.  *)

\* Bounds of the timer model.
MaxTime == 230
MaxActions == 3

\* main.rs 62, 63 and the event::poll timeout of 252.
RESYNTH_DEBOUNCE == 150
EFFECTS_DEBOUNCE == 80
PollTimeout == 33

\* How long after the poll starts a key arrives, when one does.
KeyDelays == {25}

\* main.rs 284 and 287: Some(Instant::now() + window), whatever was pending.
debounce_deadline_keeps_pending(pending, t, window) ==
    IF is_some(pending) THEN pending ELSE Some(t + window)
debounce_deadline(pending, t, window) == Some(t + window)

\* main.rs 236 and 245: if let Some(deadline) = .. { if Instant::now() >= deadline
matured(pending, t) == is_some(pending) /\ t >= unwrap(pending)

\* main.rs 238: what the maturing resynthesis timer does to effects_pending.
effects_after_resynth_keeps(pending) == pending
effects_after_resynth(pending) == None

NoTimerHistory ==
    [nacts |-> 0, inflight |-> 0,
     lastR |-> None, gapR |-> None, r_cleared |-> FALSE, r_sends |-> 0,
     r_send_at |-> None, e_pending_at_R |-> FALSE,
     e_sent_superseded |-> FALSE, e_cancelled |-> FALSE, quiet |-> FALSE,
     r_fx |-> None]

\* main.rs 153-232, as far as the timers and the outbox go: each AnalysisDone
\* found by try_recv sends a Resynthesize at once (156-163).  The worker
\* answers an Analyze with at most one AnalysisDone.
LoopPollResults ==
    /\ lpc = "results"
    /\ \E k \in 0..tlog.inflight :
          /\ sent' = sent \o [i \in 1..k |-> "Resynthesize"]
          /\ tlog' = [tlog EXCEPT !.inflight = @ - k]
          /\ IF k = 0 THEN UNCHANGED app
             ELSE \E mono_original \in AnalysisBuffers :
                     app' = [app EXCEPT !.processing_status = None,
                                        !.original_audio = Some(mono_original)]
    /\ lpc' = "timers"
    /\ UNCHANGED <<now, resynth_pending, effects_pending>>
    /\ UNCHANGED <<mpc, pgh, workerVars, engineVars>>

\* main.rs 234-250: the two deadline checks of one iteration.
LoopCheckTimers ==
    /\ lpc = "timers"
    /\ LET r == matured(resynth_pending, now)
           ep == IF r THEN effects_after_resynth(effects_pending)
                 ELSE effects_pending
           e == matured(ep, now)
       IN  /\ resynth_pending' = IF r THEN None ELSE resynth_pending
           /\ effects_pending' = IF e THEN None ELSE ep
           /\ sent' = sent \o (IF r THEN <<"Resynthesize">> ELSE <<>>)
                           \o (IF e THEN <<"ReapplyEffects">> ELSE <<>>)
           /\ tlog' = [tlog EXCEPT
                 !.r_sends = IF r THEN @ + 1 ELSE @,
                 !.r_send_at = IF r THEN Some(now) ELSE @,
                 !.r_fx = IF r THEN Some(effects_params(app)) ELSE @,
                 !.e_cancelled = @ \/ (r /\ is_some(effects_pending)),
                 !.e_sent_superseded = @ \/ (e /\ tlog.e_pending_at_R)]
    /\ lpc' = "poll"
    /\ UNCHANGED now
    /\ UNCHANGED <<workerVars, engineVars, mainVars>>

\* main.rs 252: event::poll(33 ms) times out.
LoopPollTimeout ==
    /\ lpc = "poll"
    /\ now + PollTimeout <= MaxTime
    /\ now' = now + PollTimeout
    /\ lpc' = "results"
    /\ UNCHANGED <<resynth_pending, effects_pending, tlog, sent>>
    /\ UNCHANGED <<workerVars, engineVars, mainVars>>

\* main.rs 252-259 with a key that yields no action (handle_key_event
\* returns None) or an action the timers do not see.
KeyOther ==
    /\ lpc = "poll"
    /\ \E dt \in KeyDelays :
          /\ now + dt <= MaxTime
          /\ now' = now + dt
    /\ lpc' = "results"
    /\ UNCHANGED <<resynth_pending, effects_pending, tlog, sent>>
    /\ UNCHANGED <<workerVars, engineVars, mainVars>>

\* main.rs 282-285: Action::Resynthesize.
KeyResynthesize ==
    /\ lpc = "poll"
    /\ tlog.nacts < MaxActions
    /\ \E dt \in KeyDelays :
          /\ now + dt <= MaxTime
          /\ now' = now + dt
          /\ resynth_pending' =
                 debounce_deadline(resynth_pending, now', RESYNTH_DEBOUNCE)
          /\ tlog' = [tlog EXCEPT
                 !.nacts = @ + 1,
                 !.gapR = IF is_some(tlog.lastR)
                          THEN Some(now' - unwrap(tlog.lastR)) ELSE None,
                 !.lastR = Some(now'),
                 !.r_cleared = FALSE, !.r_sends = 0, !.r_send_at = None,
                 !.e_pending_at_R = is_some(effects_pending),
                 !.quiet = FALSE]
    /\ lpc' = "results"
    /\ UNCHANGED <<effects_pending, sent>>
    /\ UNCHANGED <<workerVars, engineVars, mainVars>>

\* handler.rs 655-680: the key moves an effects slider and yields
\* Action::ReapplyEffects; main.rs 286-288 arms the effects timer.
KeyReapplyEffects ==
    /\ lpc = "poll"
    /\ tlog.nacts < MaxActions
    /\ \E dt \in KeyDelays :
          /\ now + dt <= MaxTime
          /\ now' = now + dt
          /\ effects_pending' =
                 debounce_deadline(effects_pending, now', EFFECTS_DEBOUNCE)
    /\ \E fx \in FxVals : app' = [app EXCEPT !.effects_sliders = fx]
    /\ tlog' = [tlog EXCEPT !.nacts = @ + 1, !.e_pending_at_R = FALSE,
                            !.e_cancelled = FALSE, !.quiet = FALSE]
    /\ lpc' = "results"
    /\ UNCHANGED <<resynth_pending, sent>>
    /\ UNCHANGED <<workerVars, engineVars, mpc, pgh>>

\* load_file succeeding (main.rs 387-429): a fresh PlaybackState, playing
\* from 0 on the decoded file, gain and loop flag restored from the sliders
\* and from app.loop_enabled; then main.rs 262-271.
load_file(audio) ==
    /\ audio_lock' = [data |-> audio, writer |-> FALSE, readers |-> 0]
    /\ position' = 0
    /\ playing' = TRUE
    /\ device_channels' \in {1, 2}
    /\ app' = [app EXCEPT !.audio_data = Some(audio),
                          !.original_audio = None,
                          !.ab_original = FALSE,
                          !.file_info = FileInfo(audio),
                          !.status_message = None]
    /\ UNCHANGED <<loop_enabled, live_gain, cb, ret>>

\* A successful load that leaves the two deadlines as they are.
match_load_file_keeps_timers(ok) ==
    IF ok
    THEN /\ \E audio \in FileBuffers : load_file(audio)
         /\ UNCHANGED <<resynth_pending, effects_pending>>
         /\ processing_send("Analyze")
    ELSE /\ app' = set_status(app, "Error")
         /\ UNCHANGED <<resynth_pending, effects_pending, sent>>
         /\ UNCHANGED engineVars

\* main.rs 261-279: the two arms of the match on load_file's result.  Every
\* Err of load_file (387-429) is returned before app is assigned.
match_load_file(ok) ==
    IF ok
    THEN /\ \E audio \in FileBuffers : load_file(audio)
         /\ resynth_pending' = None
         /\ effects_pending' = None
         /\ processing_send("Analyze")
    ELSE /\ app' = set_status(app, "Error")
         /\ UNCHANGED <<resynth_pending, effects_pending, sent>>
         /\ UNCHANGED engineVars

\* main.rs 260-281: Action::LoadFile.  load_file succeeding resets both
\* timers and sends the Analyze; failing, it only sets the status line.
KeyLoadFile ==
    /\ lpc = "poll"
    /\ tlog.nacts < MaxActions
    /\ \E dt \in KeyDelays :
          /\ now + dt <= MaxTime
          /\ now' = now + dt
    /\ \E ok \in BOOLEAN :
          /\ match_load_file(ok)
          /\ tlog' = IF ok
                     THEN [tlog EXCEPT !.nacts = @ + 1, !.inflight = @ + 1,
                                       !.r_cleared = TRUE,
                                       !.e_pending_at_R = FALSE,
                                       !.quiet = TRUE]
                     ELSE [tlog EXCEPT !.nacts = @ + 1]
    /\ lpc' = "results"
    /\ UNCHANGED <<mpc, pgh, workerVars>>

\* Action::LoadFile as the main thread's handler, the clock left aside.
load_file_handler(ok) ==
    /\ match_load_file(ok)
    /\ pgh' = IF ok
              THEN [stream_built(pgh) EXCEPT !.loads = @ + 1]
              ELSE [error_handled(pgh, "load") EXCEPT !.loads = @ + 1]
    /\ UNCHANGED <<mpc, now, lpc, tlog>>

ActionLoadFile ==
    /\ MainAt("idle")
    /\ pgh.loads < MaxActions
    /\ \E ok \in BOOLEAN : load_file_handler(ok)
    /\ UNCHANGED workerVars

-----------------------------------------------------------------------------
(* The main thread and the worker together: what main sends reaches the   *)
(* worker's queue, what the worker sends is what main's try_recv returns. *)

\* The file a buffer was computed from: the buffers of the first file hold
\* the samples 11, 12, ..., those of the second 21, 22, ...
FileId(f) == IF f = "a" THEN 1 ELSE 2

SourceOf(buffer) == IF buffer.samples[1] \div 10 = 1 THEN "a" ELSE "b"

\* The worker's audio as the buffer main receives: two frames per file, the
\* half-speed synthesis twice as long.
as_audio(a) ==
    LET n == 2 * a.ch * (IF a.w = "slow" THEN 2 ELSE 1)
    IN  AudioData(a.ch, [i \in 1..n |-> 10 * FileId(a.src) + i])

\* Action::LoadFile (main.rs 260-281) with the worker attached: the Analyze
\* of the decoded audio enters the worker's queue.
LoadFileAnalyze ==
    /\ MainAt("idle")
    /\ pgh.loads < MaxActions
    /\ \E ok \in BOOLEAN :
          /\ load_file_handler(ok)
          /\ IF ok
             THEN send_command(Analyze(SourceOf(unwrap(app'.audio_data))))
             ELSE UNCHANGED workerVars

\* main.rs 154-232: one turn of `while let Some(result) = try_recv()`.  The
\* results main has taken are the first pgh.nres the worker has sent.
PollResult ==
    /\ MainAt("idle")
    /\ pgh.nres < Len(results)
    /\ LET result == results[pgh.nres + 1]
       IN  CASE result.t = "AnalysisDone" ->
                   /\ on_analysis_done(as_audio(result.a))
                   /\ processing_send("Resynthesize")
                   /\ send_command(Resynthesize(world_slider_values(app),
                                                effects_params(app)))
                   /\ UNCHANGED <<mpc, engineVars>>
              [] result.t = "SynthesisDone" ->
                   /\ on_synthesis_done(as_audio(result.a))
                   /\ UNCHANGED <<workerVars, engineVars, sent>>
              [] OTHER ->
                   /\ app' = [app EXCEPT !.processing_status = Some("msg")]
                   /\ UNCHANGED <<mpc, workerVars, engineVars, sent>>
    /\ pgh' = [pgh EXCEPT !.nres = @ + 1]
    /\ UNCHANGED timerVars

-----------------------------------------------------------------------------
(* The specifications.  Each one runs one part of the program and leaves   *)
(* the other parts as they are before they start.                          *)

\* processing_loop before its first recv (processing.rs 162-165).
WorkerParked ==
    /\ results = <<>>
    /\ cached_params = "none"
    /\ original_mono = NoAudio
    /\ post_world_audio = NoAudio
    /\ sample_rate = "none"
    /\ cmdq = <<>>
    /\ wpc = "idle"
    /\ latest_world = "none"
    /\ latest_fx = "none"
    /\ hist = [log |-> <<>>, burst |-> TRUE, r0 |-> 0, panics |-> 0]
    /\ batch = NoBatch
    /\ handle = "held"

\* PlaybackState::default (playback.rs 25-35): no stream, no lock.
EngineParked ==
    /\ audio_lock = [data |-> NoBuffer, writer |-> FALSE, readers |-> 0]
    /\ position = 0
    /\ playing = FALSE
    /\ loop_enabled = FALSE
    /\ live_gain = 1
    /\ device_channels = 0
    /\ cb = IdleCallback
    /\ ret = NoReturn

\* AppState::new and the locals of main (main.rs 82-92).
MainParked ==
    /\ app = NoApp
    /\ mpc = IdleMain
    /\ pgh = NoHistory

TimersParked ==
    /\ now = 0
    /\ resynth_pending = None
    /\ effects_pending = None
    /\ lpc = "results"
    /\ tlog = NoTimerHistory

\* ---- the worker and a client that enqueues commands ----
Init == InitWorker /\ EngineParked /\ MainParked /\ TimersParked /\ sent = <<>>

Next == Send \/ WorkerDispatch \/ DrainResynth \/ DrainEffects

Spec == Init /\ [][Next]_vars

\* ---- the worker until it ends: main sends, shuts down, drops the handle ----
\* Every call the worker makes returns (weak fairness of its steps); main
\* is under no obligation.
InitTeardown ==
    InitWorker /\ EngineParked /\ MainParked /\ TimersParked /\ sent = <<>>

NextTeardown ==
    \/ MainSend \/ shutdown \/ DropHandle
    \/ WorkerDispatch \/ DrainResynth \/ DrainEffects \/ RecvDisconnected

SpecTeardown ==
    /\ InitTeardown /\ [][NextTeardown]_vars
    /\ WF_vars(WorkerDispatch) /\ WF_vars(DrainResynth)
    /\ WF_vars(DrainEffects) /\ WF_vars(RecvDisconnected)

\* ---- the methods of a PlaybackState created by new() ----
InitState ==
    /\ EngineParked /\ MainParked
    /\ WorkerParked /\ TimersParked /\ sent = <<>>

NextState ==
    \/ StorePosition \/ CallSeekBySamples \/ CallSeekBySecs
    \/ CallTogglePlaying

SpecState == InitState /\ [][NextState]_vars

\* ---- the hot swaps of the main thread, the stream idle ----
\* The state load_file leaves, as InitPlayback.
InitSwap ==
    /\ \E audio \in FileBuffers :
          /\ audio_lock = [data |-> audio, writer |-> FALSE, readers |-> 0]
          /\ app = [NoApp EXCEPT !.audio_data = Some(audio),
                                 !.file_info = FileInfo(audio)]
    /\ position = 0
    /\ playing = TRUE
    /\ loop_enabled = FALSE
    /\ live_gain = 1
    /\ device_channels \in {1, 2}
    /\ cb = IdleCallback
    /\ ret = NoReturn
    /\ mpc = IdleMain
    /\ pgh = NoHistory
    /\ WorkerParked /\ TimersParked /\ sent = <<>>

NextSwap ==
    \/ RecvAnalysisDone \/ RecvSynthesisDone
    \/ SynthesisDoneStore \/ SynthesisDoneClamp
    \/ KeyToggleAB \/ SwapLock \/ SwapWrite \/ SwapReturn
    \/ KeyHomeEnd \/ KeyTransport

SpecSwap == InitSwap /\ [][NextSwap]_vars

\* ---- the position rescales of the main thread, as functions ----
InitRescale ==
    /\ EngineParked /\ MainParked
    /\ WorkerParked /\ TimersParked /\ sent = <<>>

NextRescale == CallReconcileChannels \/ CallAbNewPos

SpecRescale == InitRescale /\ [][NextRescale]_vars

\* ---- the callback, the swaps and the seeks ----
\* The state load_file leaves (main.rs 387-429, start_playback 105-151): the
\* stream runs on the decoded file, position 0, playing.
InitPlayback ==
    /\ \E audio \in FileBuffers :
          /\ audio_lock = [data |-> audio, writer |-> FALSE, readers |-> 0]
          /\ app = [NoApp EXCEPT !.audio_data = Some(audio),
                                 !.file_info = FileInfo(audio)]
    /\ position = 0
    /\ playing = TRUE
    /\ loop_enabled = FALSE
    /\ live_gain = 1
    /\ device_channels \in {1, 2}
    /\ cb = IdleCallback
    /\ ret = NoReturn
    /\ mpc = IdleMain
    /\ pgh = NoHistory
    /\ WorkerParked /\ TimersParked /\ sent = <<>>

NextPlayback ==
    \/ CallbackTryRead \/ CallbackLoad \/ CallbackStore \/ CallbackReturn
    \/ RecvAnalysisDone \/ RecvSynthesisDone
    \/ SynthesisDoneStore \/ SynthesisDoneClamp
    \/ KeyToggleAB \/ SwapLock \/ SwapWrite \/ SwapReturn
    \/ KeySeek \/ SeekStore \/ KeyHomeEnd \/ KeyTransport

SpecPlayback == InitPlayback /\ [][NextPlayback]_vars

\* ---- the callback and the seeks of the main thread, no swap ----
InitSeek == InitPlayback

NextSeek ==
    \/ CallbackTryRead \/ CallbackLoad \/ CallbackStore \/ CallbackReturn
    \/ KeySeek \/ SeekStore \/ KeyHomeEnd

SpecSeek == InitSeek /\ [][NextSeek]_vars

\* ---- write_audio_data alone, on every input it accepts ----
InitCallback ==
    /\ \E data \in CallbackBuffers :
          /\ \E w \in BOOLEAN :
                audio_lock = [data |-> data, writer |-> w, readers |-> 0]
          /\ position \in 0..(Len(data.samples) + 1)
    /\ playing \in BOOLEAN
    /\ loop_enabled \in BOOLEAN
    /\ live_gain \in Gains
    /\ device_channels \in 0..2
    /\ cb = IdleCallback
    /\ ret = NoReturn
    /\ WorkerParked /\ MainParked /\ TimersParked /\ sent = <<>>

NextCallback ==
    CallbackTryRead \/ CallbackLoad \/ CallbackStore \/ CallbackReturn

SpecCallback == InitCallback /\ [][NextCallback]_vars

\* ---- the debounce timers of the event loop ----
InitDebounce ==
    WorkerParked /\ EngineParked /\ MainParked /\ TimersParked /\ sent = <<>>

NextDebounce ==
    \/ LoopPollResults \/ LoopCheckTimers \/ LoopPollTimeout
    \/ KeyOther \/ KeyResynthesize \/ KeyReapplyEffects \/ KeyLoadFile

SpecDebounce == InitDebounce /\ [][NextDebounce]_vars

\* ---- the main thread's handlers, errors included, with no callback ----
\* main before its first iteration (main.rs 82-92): no file, no stream.
InitErrors ==
    /\ EngineParked /\ MainParked
    /\ WorkerParked /\ TimersParked /\ sent = <<>>

NextErrors ==
    \/ ActionLoadFile \/ RecvStatus \/ RecvAnalysisDone \/ RecvSynthesisDone
    \/ SynthesisDoneStore \/ SynthesisDoneClamp \/ RebuildStream
    \/ SwapLock \/ SwapWrite \/ SwapReturn
    \/ KeyToggleAB \/ KeyHomeEnd

SpecErrors == InitErrors /\ [][NextErrors]_vars

\* ---- the streams the main thread builds, the transport keys in use ----
InitStream ==
    /\ EngineParked /\ MainParked
    /\ WorkerParked /\ TimersParked /\ sent = <<>>

NextStream ==
    \/ ActionLoadFile \/ RecvSynthesisDone
    \/ SynthesisDoneStore \/ SynthesisDoneClamp \/ RebuildStream
    \/ SwapLock \/ SwapWrite \/ SwapReturn
    \/ KeyHomeEnd \/ KeyTransport

SpecStream == InitStream /\ [][NextStream]_vars

\* ---- the main thread's handlers with the worker running ----
InitPipeline ==
    /\ EngineParked
    /\ \E s \in SliderSettings : app = with_sliders(NoApp, s)
    /\ mpc = IdleMain
    /\ pgh = NoHistory
    /\ WorkerParked /\ TimersParked /\ sent = <<>>

NextPipeline ==
    \/ LoadFileAnalyze \/ PollResult \/ KeyToggleAB
    \/ WorkerDispatch \/ DrainResynth
    \/ SynthesisDoneStore \/ SynthesisDoneClamp
    \/ SwapLock \/ SwapWrite \/ SwapReturn

SpecPipeline == InitPipeline /\ [][NextPipeline]_vars

\* ---- one loaded file: main, the stream and the worker until they settle ----
\* The state a first successful Action::LoadFile leaves (main.rs 260-271):
\* the stream plays the decoded file and the Analyze is in the queue.
InitListen ==
    /\ \E audio \in FileBuffers, s \in SliderSettings :
          /\ audio_lock = [data |-> audio, writer |-> FALSE, readers |-> 0]
          /\ app = [with_sliders(NoApp, s)
                       EXCEPT !.audio_data = Some(audio),
                              !.file_info = FileInfo(audio)]
          /\ cmdq = <<Analyze(SourceOf(audio))>>
          /\ hist = [log |-> cmdq, burst |-> TRUE, r0 |-> 0, panics |-> 0]
    /\ position = 0
    /\ playing = TRUE
    /\ loop_enabled = FALSE
    /\ live_gain = 1
    /\ device_channels \in {1, 2}
    /\ cb = IdleCallback
    /\ ret = NoReturn
    /\ mpc = IdleMain
    /\ pgh = [NoHistory EXCEPT !.loads = 1]
    /\ results = <<>>
    /\ cached_params = "none"
    /\ original_mono = NoAudio
    /\ post_world_audio = NoAudio
    /\ sample_rate = "none"
    /\ wpc = "idle"
    /\ latest_world = "none"
    /\ latest_fx = "none"
    /\ batch = NoBatch
    /\ handle = "held"
    /\ TimersParked /\ sent = <<"Analyze">>

NextListen ==
    \/ PollResult \/ KeyToggleAB
    \/ WorkerDispatch \/ DrainResynth
    \/ SynthesisDoneStore \/ SynthesisDoneClamp
    \/ SwapLock \/ SwapWrite \/ SwapReturn

SpecListen == InitListen /\ [][NextListen]_vars


-----------------------------------------------------------------------------
(* Properties of the worker (specification Spec).                          *)

IsSynthesisDone(r) == r.t = "SynthesisDone"
IsAnalysisDone(r) == r.t = "AnalysisDone"

\* What the dispatch in progress (or the last one) has sent so far.
BatchOut == SubSeq(results, batch.rstart + 1, Len(results))

\* What the worker has sent since the model started.
NewResults == SubSeq(results, hist.r0 + 1, Len(results))

Quiescent == wpc = "idle" /\ cmdq = <<>>

\* The output of the resynthesize pipeline for sliders w and effects fx on
\* the worker's present caches, when no stage fails.
Resynthesized(w, fx) ==
    apply_fx_chain(IF w \in {"neutral", "bypass"}
                   THEN original_mono
                   ELSE synthesize(cached_params, w, sample_rate),
                   fx)

PipelineSucceeds(w) ==
    w \in {"neutral", "bypass"} \/ synthesize_ok(cached_params, w)

\* C1's case: a finished dispatch that started from a Resynthesize with the
\* analysis cached, found only Resynthesize commands behind it, and saw no
\* command arrive while it ran.
CoalescedBurst ==
    /\ batch.done
    /\ batch.first.t = "Resynthesize"
    /\ batch.cached0 # "none"
    /\ \A i \in DOMAIN batch.q0 : batch.q0[i].t = "Resynthesize"
    /\ ~batch.late

BurstLast == IF batch.q0 = <<>> THEN batch.first ELSE batch.q0[Len(batch.q0)]

\* C1 as stated: N Resynthesize commands queued before the worker starts on
\* the first give exactly one resynthesis and exactly one SynthesisDone,
\* computed from the sliders and effects of the last command.
C1_ExactlyOneSynthesisDone ==
    CoalescedBurst =>
        /\ batch.runs = 1
        /\ SelectSeq(BatchOut, IsSynthesisDone)
             = <<SynthesisDone(Resynthesized(BurstLast.w, BurstLast.fx))>>

\* C1 amended: exactly one run of the resynthesize pipeline, with the last
\* command's sliders and effects; it sends exactly one SynthesisDone, unless
\* the vocoder synthesis call fails, and then it sends one "Synthesis error"
\* Status and no SynthesisDone.
C1_OneResynthesisLastParams ==
    CoalescedBurst =>
        /\ batch.runs = 1
        /\ batch.drained = batch.q0
        /\ IF PipelineSucceeds(BurstLast.w)
           THEN SelectSeq(BatchOut, IsSynthesisDone)
                  = <<SynthesisDone(Resynthesized(BurstLast.w, BurstLast.fx))>>
           ELSE /\ SelectSeq(BatchOut, IsSynthesisDone) = <<>>
                /\ SelectSeq(BatchOut, LAMBDA r : r.t = "Status"
                                                  /\ r.msg = "Synthesis error")
                     = <<Status("Synthesis error")>>

\* C1 witness: three commands coalesced, the last differing from the first
\* in sliders and effects, one SynthesisDone sent.
C1_Witness ==
    /\ CoalescedBurst
    /\ Len(batch.q0) = 2
    /\ BurstLast.w # batch.first.w
    /\ BurstLast.fx # batch.first.fx
    /\ Len(SelectSeq(BatchOut, IsSynthesisDone)) = 1

\* C2's case: Resynthesize, Analyze, Resynthesize were enqueued in one burst
\* before the worker received anything, nothing was enqueued after them,
\* and the worker has emptied the queue.
BurstRAR ==
    /\ hist.burst
    /\ Len(hist.log) = 3
    /\ hist.log[1].t = "Resynthesize"
    /\ hist.log[2].t = "Analyze"
    /\ hist.log[3].t = "Resynthesize"
    /\ Quiescent

AnalyzedMono == to_mono(decode_file(hist.log[2].f))

StatusCount(seq, m) ==
    Len(SelectSeq(seq, LAMBDA r : r.t = "Status" /\ r.msg = m))

\* i < j and seq[i] = x, seq[j] = y for some i, j.
Precedes(seq, x, y) ==
    \E i, j \in DOMAIN seq : i < j /\ seq[i] = x /\ seq[j] = y

\* C2 as stated: after the burst Resynthesize, Analyze, Resynthesize the
\* worker has emitted AnalysisDone for the analysed buffer and SynthesisDone
\* for the final Resynthesize's parameters.
C2_BothExecuted ==
    BurstRAR =>
        /\ \E i \in DOMAIN NewResults : NewResults[i] = AnalysisDone(AnalyzedMono)
        /\ \E i \in DOMAIN NewResults :
              NewResults[i] = SynthesisDone(Resynthesized(hist.log[3].w,
                                                          hist.log[3].fx))

\* C2 amended: the Analyze of the burst is always run, never dropped: it
\* emits AnalysisDone, or one "Analysis error" Status when the analysis
\* fails, or is answered by one "Internal error" Status when it panics.  The
\* final Resynthesize then emits the only SynthesisDone, computed from the
\* final parameters and the analysis cached at that time; it emits none when
\* the Analyze panicked, when no analysis is cached, or when the synthesis
\* call fails.
C2_AnalyzePreserved ==
    BurstRAR =>
        LET out == analyze_outcome(decode_file(hist.log[2].f))
            final == SynthesisDone(Resynthesized(hist.log[3].w, hist.log[3].fx))
            dones == SelectSeq(NewResults, IsSynthesisDone)
            runs == cached_params # "none" /\ PipelineSucceeds(hist.log[3].w)
        IN  /\ out = "ok" =>
                  /\ SelectSeq(NewResults, IsAnalysisDone)
                       = <<AnalysisDone(AnalyzedMono)>>
                  /\ cached_params = hist.log[2].f
                  /\ runs => Precedes(NewResults, AnalysisDone(AnalyzedMono), final)
            /\ out = "err" =>
                  /\ SelectSeq(NewResults, IsAnalysisDone) = <<>>
                  /\ StatusCount(NewResults, "Analysis error") = 1
            /\ out = "panic" =>
                  /\ SelectSeq(NewResults, IsAnalysisDone) = <<>>
                  /\ StatusCount(NewResults, "Internal error") = 1
                  /\ cached_params = "none"
            /\ dones = IF runs THEN <<final>> ELSE <<>>

\* C2 witness: the Analyze was met while draining (one dispatch consumed the
\* whole burst) and both results were sent, AnalysisDone first.
C2_Witness ==
    /\ BurstRAR
    /\ batch.first = hist.log[1]
    /\ batch.drained = <<hist.log[2], hist.log[3]>>
    /\ hist.log[3].w # hist.log[1].w
    /\ Precedes(NewResults, AnalysisDone(AnalyzedMono),
                SynthesisDone(Resynthesized(hist.log[3].w, hist.log[3].fx)))

\* C10: a panic raised while a command is handled is caught at the dispatch
\* boundary: it is answered by exactly one "Internal error" Status, the last
\* thing that dispatch sends; the worker thread goes on (it exits only on a
\* Shutdown); and what it receives afterwards is served as by a fresh
\* worker: a Load or Analyze of a sound file sends its AnalysisDone and
\* fills the caches again.
C10_PanicRecovery ==
    /\ StatusCount(results, "Internal error") = hist.panics
    /\ (batch.done /\ batch.panicked) =>
          /\ wpc = "idle"
          /\ StatusCount(BatchOut, "Internal error") = 1
          /\ results[Len(results)] = Status("Internal error")
          /\ cached_params = "none"
          /\ original_mono = NoAudio
          /\ post_world_audio = NoAudio
    /\ wpc = "exited" =>
          \/ batch.first = Shutdown
          \/ batch.drained # <<>> /\ batch.drained[Len(batch.drained)] = Shutdown
    /\ (batch.done /\ batch.first.t \in {"Load", "Analyze"}
                   /\ batch.first.f \in {"a", "b"}) =>
          /\ ~batch.panicked
          /\ results[Len(results)]
               = AnalysisDone(to_mono(decode_file(batch.first.f)))
          /\ cached_params = batch.first.f
          /\ original_mono = to_mono(decode_file(batch.first.f))

\* C10 witness: a panic was caught, and a later Load was served and analysed.
C10_Witness ==
    /\ hist.panics = 1
    /\ StatusCount(results, "Internal error") = 1
    /\ batch.done
    /\ batch.first = Load("a")
    /\ results[Len(results)] = AnalysisDone(to_mono(decode_file("a")))
    /\ wpc = "idle"

-----------------------------------------------------------------------------
(* Claims about the hot swap: SpecPlayback.                                *)

\* C3: a hot swap writes the supplied position under the write lock, so no
\* callback invocation reads a newly installed buffer together with a
\* position that was computed against an earlier buffer.  pos_gen is the
\* number of the swap whose buffer the stored position was computed for;
\* buf_gen the number of the swap that installed the buffer the callback
\* holds; an old position that equals the supplied one is not told apart.
C3_NoNewBufferWithOldPosition ==
    cb.pc = "loaded" =>
        cb.pos_gen >= cb.buf_gen \/ cb.pos = pgh.supplied

\* C4: immediately after every buffer swap (SynthesisDone or A/B toggle),
\* 0 <= position <= sample count of the buffer just installed.
C4_PositionClampedAfterSwap ==
    mpc.pc = "swapped" =>
        0 <= mpc.cur /\ mpc.cur <= Len(mpc.new_audio.samples)

-----------------------------------------------------------------------------
(* Claims about one callback invocation: SpecCallback.                     *)

WholeOutput(r) == r.frames * (IF r.dc = 0 THEN 1 ELSE r.dc)

\* The buffer index the claim's reading of the callback takes output sample i
\* from, when nothing wraps: frame k of the output is frame k after pos0.
SourceIndex(r, i) ==
    r.pos0 + ((i - 1) \div r.dc) * r.data.channels
           + (((i - 1) % r.dc) % r.data.channels)

\* C5: with looping disabled, for every starting position <= sample count
\* and every channel count, position <= sample count when the callback
\* returns and the output after the end of the buffer is silence.
C5_NeverPastEnd ==
    (ret.path = "rendered" /\ ~ret.looping
       /\ ret.pos0 <= Len(ret.data.samples)) =>
        /\ ret.pos1 <= Len(ret.data.samples)
        /\ \A i \in 1..Len(ret.out) :
              SourceIndex(ret, i) >= Len(ret.data.samples) =>
                  ret.out[i] = silence

\* C6: the callback never waits for the lock: when a writer holds it, or
\* the buffer (or the device) has zero channels, the invocation returns with
\* its whole output silent and position unchanged; it is never inside the
\* buffer while a writer holds the lock.
C6_NeverWaitsForLock ==
    /\ cb.pc # "idle" => ~audio_lock.writer
    /\ ret.path = "rendered" =>
          ~audio_lock.writer /\ ret.data.channels > 0 /\ ret.dc > 0
    /\ ret.path \in {"contended", "nochannels"} =>
          /\ ret.out = Silent(WholeOutput(ret))
          /\ ret.pos1 = ret.pos0
          /\ position = ret.pos0
          /\ cb = IdleCallback
          /\ audio_lock.readers = 0

C6_Witness ==
    /\ ret.path = "contended"
    /\ audio_lock.writer
    /\ position > 0
    /\ Len(ret.out) > 1

\* C7: a callback that starts with position equal to the buffer length
\* outputs only silence and leaves position alone when looping is off; when
\* looping is on and the buffer is not empty, its output starts with the
\* first frame of the buffer and position restarts from 0 (one frame played
\* leaves it at the channel count).
C7_LoopingAtEnd ==
    (ret.path = "rendered" /\ ret.pos0 = Len(ret.data.samples)) =>
        LET s == ret.data.samples
            ac == ret.data.channels
        IN  IF ~ret.looping
            THEN /\ ret.out = Silent(WholeOutput(ret))
                 /\ ret.pos1 = ret.pos0
            ELSE Len(s) > 0 =>
                 /\ \A d \in 1..ret.dc :
                       ret.out[d] = IF (d - 1) % ac < Len(s)
                                    THEN s[((d - 1) % ac) + 1] * ret.gain
                                    ELSE silence
                 /\ ret.frames = 1 => ret.pos1 = ac
                 /\ ret.pos1 >= ac /\ ret.pos1 < Len(s) + ac

C7_Witness ==
    /\ ret.path = "rendered"
    /\ ret.looping
    /\ ret.pos0 = Len(ret.data.samples)
    /\ ret.pos0 > 0
    /\ ret.out[1] = ret.data.samples[1] * ret.gain
    /\ ret.pos1 < ret.pos0

-----------------------------------------------------------------------------
(* Claims about the debounce timers: SpecDebounce.                         *)

\* C8: resynthesis actions less than 150 ms apart cause exactly one timer
\* Resynthesize, sent no earlier than 150 ms after the last of them (every
\* action re-arms the timer from its own time), as long as no file load
\* clears the timer first.
C8_DebounceOneSend ==
    /\ is_some(tlog.r_send_at) =>
          /\ is_some(tlog.lastR)
          /\ unwrap(tlog.r_send_at) >= unwrap(tlog.lastR) + RESYNTH_DEBOUNCE
    /\ tlog.r_sends <= 1
    /\ (is_some(tlog.lastR) /\ ~tlog.r_cleared /\ tlog.r_sends = 0) =>
          resynth_pending = Some(unwrap(tlog.lastR) + RESYNTH_DEBOUNCE)
    /\ (lpc = "poll" /\ is_some(tlog.lastR) /\ ~tlog.r_cleared
          /\ now >= unwrap(tlog.lastR) + RESYNTH_DEBOUNCE) =>
          tlog.r_sends = 1 /\ "Resynthesize" \in {sent[i] : i \in DOMAIN sent}

C8_Witness ==
    /\ is_some(tlog.gapR)
    /\ unwrap(tlog.gapR) = 50
    /\ tlog.r_sends = 1
    /\ sent = <<"Resynthesize">>

\* C9 as stated: a resynthesis action that occurs while an effects timer is
\* pending cancels that timer, so no ReapplyEffects is sent for it.
C9_ActionCancelsEffects ==
    ~tlog.e_sent_superseded

\* C9 amended: the pending effects timer is cancelled when the resynthesis
\* timer matures; from then on no ReapplyEffects is sent until a new effects
\* action, and the tick that sends the Resynthesize sends nothing after it.
C9_MaturityCancelsEffects ==
    /\ tlog.e_cancelled => effects_pending = None
    /\ (lpc = "poll" /\ tlog.r_send_at = Some(now)) =>
          sent[Len(sent)] = "Resynthesize"

C9_Witness ==
    /\ tlog.e_cancelled
    /\ tlog.r_send_at = Some(now)
    /\ sent = <<"Resynthesize">>

-----------------------------------------------------------------------------
(* Properties of the drains: Spec.                                         *)

Last(seq) == seq[Len(seq)]

\* How many commands the worker has taken from the queue.
Consumed == Len(hist.log) - Len(cmdq)

\* The queue is first-in first-out: what waits is the end of what was sent,
\* and the dispatch in progress (or the last one) took the commands just
\* before it, in the order they were sent.
InOrder ==
    /\ cmdq = SubSeq(hist.log, Consumed + 1, Len(hist.log))
    /\ batch.first # NoCmd =>
          <<batch.first>> \o batch.drained
            = SubSeq(hist.log, Consumed - Len(batch.drained), Consumed)

\* The batch began with a Resynthesize or a ReapplyEffects and the command
\* it drained last is of type t.
DrainedLast(t) ==
    /\ batch.first.t \in {"Resynthesize", "ReapplyEffects"}
    /\ batch.drained # <<>>
    /\ Last(batch.drained).t = t

\* C11: a Shutdown found while draining after a Resynthesize or a
\* ReapplyEffects makes the worker exit at once: the pending resynthesis or
\* effects pass is not run, the batch sends no SynthesisDone, and no command
\* queued behind the Shutdown is ever taken from the queue (the Shutdown is
\* the last command consumed, the first Shutdown consumed, and everything
\* sent after it still waits).
C11_ShutdownInDrainExits ==
    DrainedLast("Shutdown") =>
        /\ wpc = "exited"
        /\ batch.runs = 0
        /\ SelectSeq(BatchOut, IsSynthesisDone) = <<>>
        /\ hist.log[Consumed] = Shutdown
        /\ \A i \in 1..(Consumed - 1) : hist.log[i] # Shutdown
        /\ cmdq = SubSeq(hist.log, Consumed + 1, Len(hist.log))

\* C11 witness: the worker has exited on a drained Shutdown, with the
\* analysis cached, and a command sent after the Shutdown is still queued.
C11_Witness ==
    /\ DrainedLast("Shutdown")
    /\ batch.cached0 # "none"
    /\ wpc = "exited"
    /\ cmdq # <<>>

\* What a load of file f sends, from "Decoding..." to its last result.
LoadOutput(f) == catch_unwind(run_load_file(FreshWorker, f)).results

\* C12: a Load found while draining after a Resynthesize or a ReapplyEffects
\* aborts the batch: the load runs (its results end the batch's output), the
\* pending resynthesis is not run and the batch sends no SynthesisDone, the
\* worker is back at recv, and the commands behind the Load are still
\* queued, to be taken in the order they were sent.
C12_LoadInDrainAborts ==
    /\ InOrder
    /\ DrainedLast("Load") =>
          LET exp == LoadOutput(Last(batch.drained).f)
              n == Len(BatchOut)
          IN  /\ batch.done
              /\ wpc = "idle"
              /\ batch.runs = 0
              /\ SelectSeq(BatchOut, IsSynthesisDone) = <<>>
              /\ n >= Len(exp)
              /\ SubSeq(BatchOut, n - Len(exp) + 1, n) = exp
              /\ hist.log[Consumed] = Last(batch.drained)

\* C12 witness: a Resynthesize with the analysis cached drained a second
\* Resynthesize and then a Load of a sound file; the load's AnalysisDone is
\* the last result.
C12_Witness ==
    /\ DrainedLast("Load")
    /\ batch.first.t = "Resynthesize"
    /\ batch.cached0 # "none"
    /\ Len(batch.drained) = 2
    /\ batch.drained[1].t = "Resynthesize"
    /\ Last(results) = AnalysisDone(to_mono(decode_file("a")))

\* C13's case: a finished dispatch that started from a ReapplyEffects, found
\* behind it only Resynthesize and ReapplyEffects commands, one Resynthesize
\* at least, and saw no command arrive while it ran.
AbsorbedBurst ==
    /\ batch.done
    /\ batch.first.t = "ReapplyEffects"
    /\ \A i \in DOMAIN batch.q0 :
          batch.q0[i].t \in {"Resynthesize", "ReapplyEffects"}
    /\ \E i \in DOMAIN batch.q0 : batch.q0[i].t = "Resynthesize"
    /\ ~batch.late

\* The last Resynthesize of a sequence of commands that holds one.
LastResynthesize(seq) ==
    LET i == CHOOSE j \in DOMAIN seq :
                 /\ seq[j].t = "Resynthesize"
                 /\ \A l \in DOMAIN seq : l > j => seq[l].t # "Resynthesize"
    IN  seq[i]

\* C13 as stated (with an analysis cached when the batch starts): the batch
\* sends exactly one SynthesisDone, the full
\* resynthesis with the sliders of the last Resynthesize drained and the
\* effects of the last command drained.
C13_ExactlyOneSynthesisDone ==
    (AbsorbedBurst /\ batch.cached0 # "none") =>
        SelectSeq(BatchOut, IsSynthesisDone)
          = <<SynthesisDone(Resynthesized(LastResynthesize(batch.q0).w,
                                          Last(batch.q0).fx))>>

\* C13 amended: the effects-only pass is never run.  When an analysis is
\* cached the full resynthesis runs once, with the sliders of the last
\* Resynthesize drained and the effects of the last command drained, and
\* sends the batch's only SynthesisDone, unless the vocoder synthesis call
\* fails: then it sends one "Synthesis error" Status and no SynthesisDone.
\* When no analysis is cached nothing is run and nothing is sent.
C13_AbsorbedIntoResynthesis ==
    AbsorbedBurst =>
        LET w == LastResynthesize(batch.q0).w
            fx == Last(batch.q0).fx
            dones == SelectSeq(BatchOut, IsSynthesisDone)
        IN  /\ batch.drained = batch.q0
            /\ IF cached_params = "none"
               THEN batch.runs = 0 /\ BatchOut = <<>>
               ELSE /\ batch.runs = 1
                    /\ IF PipelineSucceeds(w)
                       THEN dones = <<SynthesisDone(Resynthesized(w, fx))>>
                       ELSE /\ dones = <<>>
                            /\ StatusCount(BatchOut, "Synthesis error") = 1

\* C13 witness: ReapplyEffects, Resynthesize, ReapplyEffects in one batch,
\* the two ReapplyEffects differing; one SynthesisDone, carrying the last
\* command's effects.
C13_Witness ==
    /\ AbsorbedBurst
    /\ Len(batch.q0) = 2
    /\ batch.q0[1].t = "Resynthesize"
    /\ batch.q0[2].t = "ReapplyEffects"
    /\ batch.q0[2].fx # batch.first.fx
    /\ batch.q0[2].fx # batch.q0[1].fx
    /\ Len(SelectSeq(BatchOut, IsSynthesisDone)) = 1

\* C14's burst: everything sent, but for a leading Load or Analyze of the
\* short file, which the worker handles first and which leaves its analysis
\* cached.
BurstStart ==
    IF hist.log # <<>> /\ hist.log[1] \in {Load("a"), Analyze("a")}
    THEN 1 ELSE 0

ParamBurst == SubSeq(hist.log, BurstStart + 1, Len(hist.log))

\* C14's case: an analysis is cached, the burst holds only Resynthesize and
\* ReapplyEffects commands, no synthesis call has failed, and the worker has
\* emptied the queue.
ParamBurstDone ==
    /\ Quiescent
    /\ ParamBurst # <<>>
    /\ \A i \in DOMAIN ParamBurst :
          ParamBurst[i].t \in {"Resynthesize", "ReapplyEffects"}
    /\ cached_params # "none"
    /\ StatusCount(NewResults, "Synthesis error") = 0

\* What the latest parameters of the burst give: the sliders of its last
\* Resynthesize (the analysis mono when it has none) under the effects of
\* its last command.
LatestParamsAudio ==
    IF \E i \in DOMAIN ParamBurst : ParamBurst[i].t = "Resynthesize"
    THEN Resynthesized(LastResynthesize(ParamBurst).w, Last(ParamBurst).fx)
    ELSE apply_fx_chain(original_mono, Last(ParamBurst).fx)

\* C14: after a burst of Resynthesize and ReapplyEffects commands and
\* quiescence, the last SynthesisDone sent is computed from the sliders of
\* the burst's last Resynthesize and the effects of the burst's last
\* command, however the drains split the burst.
C14_LatestParamsWin ==
    ParamBurstDone =>
        LET dones == SelectSeq(NewResults, IsSynthesisDone)
        IN  /\ dones # <<>>
            /\ Last(dones) = SynthesisDone(LatestParamsAudio)

\* C14 witness: a Resynthesize at half speed and a ReapplyEffects with other
\* effects were handled in two dispatches, each sending a SynthesisDone; the
\* second is the vocoder output under the new effects.
C14_Witness ==
    /\ ParamBurstDone
    /\ Len(ParamBurst) = 2
    /\ ParamBurst[1].t = "Resynthesize" /\ ParamBurst[1].w = "slow"
    /\ ParamBurst[2].t = "ReapplyEffects"
    /\ ParamBurst[2].fx # ParamBurst[1].fx
    /\ Len(SelectSeq(NewResults, IsSynthesisDone)) = 2
    /\ Last(results) = SynthesisDone(LatestParamsAudio)

\* How many of the commands consumed so far are in the set cmds.
ConsumedIn(cmds) ==
    Cardinality({i \in 1..Consumed : hist.log[i] \in cmds})

\* The dispatch in progress (or the last one) ran the resynthesis pipeline
\* and its vocoder synthesis call failed.
SynthesisFailed ==
    /\ batch.done
    /\ batch.runs = 1
    /\ ~PipelineSucceeds(latest_world)

\* C16: a worker-local error never ends the worker thread.  Every decode
\* error and every analysis error is answered by exactly one Status with
\* the error message, a failed synthesis call by exactly one, the last
\* result of its batch, with no SynthesisDone; afterwards the worker is
\* back at recv (or goes on draining, for an Analyze met in a drain), and
\* the thread ends only on a Shutdown.
C16_ErrorsBecomeStatus ==
    /\ StatusCount(NewResults, "Load error") = ConsumedIn({Load("missing")})
    /\ StatusCount(NewResults, "Analysis error")
         = ConsumedIn({Load("empty"), Analyze("empty")})
    /\ StatusCount(BatchOut, "Synthesis error")
         = IF SynthesisFailed THEN 1 ELSE 0
    /\ SynthesisFailed =>
          /\ Last(results) = Status("Synthesis error")
          /\ SelectSeq(BatchOut, IsSynthesisDone) = <<>>
          /\ wpc = "idle"
    /\ (batch.done /\ Consumed > 0
          /\ \/ hist.log[Consumed] \in {Load("missing"), Load("empty")}
             \/ batch.first = Analyze("empty")) =>
          /\ wpc = "idle"
          /\ Last(results)
               = IF hist.log[Consumed] = Load("missing")
                 THEN Status("Load error") ELSE Status("Analysis error")
    /\ wpc = "exited" => hist.log[Consumed] = Shutdown

\* C16 witness: a decode error, an analysis error and a synthesis error, one
\* after the other, each answered by its Status; the worker waits for the
\* next command.
C16_Witness ==
    /\ hist.log = <<Load("missing"), Analyze("empty"),
                    Resynthesize("slow", "wet")>>
    /\ Quiescent
    /\ Precedes(NewResults, Status("Load error"), Status("Analysis error"))
    /\ Precedes(NewResults, Status("Analysis error"), Status("Synthesis error"))
    /\ SynthesisFailed

-----------------------------------------------------------------------------
(* Claims about the end of the worker: SpecTeardown.                       *)

\* A job is in flight: the worker has taken a Resynthesize or a
\* ReapplyEffects and has not yet run it, or commands still wait.
JobInFlight == wpc \in {"drainR", "drainE", "drainER"} \/ cmdq # <<>>

\* C17: dropping the handle never waits for the worker thread: as long as
\* main holds the handle the drop can be taken at once, whatever the worker
\* is doing.
C17_DropNeverWaits ==
    handle # "dropped" => ENABLED DropHandle

\* C17 witness: the handle is dropped while the worker is in the middle of
\* a resynthesis batch with more commands queued; the thread has not ended.
C17_Witness ==
    /\ handle = "dropped"
    /\ wpc = "drainR"
    /\ cmdq # <<>>
    /\ \A i \in DOMAIN hist.log : hist.log[i] # Shutdown

ShutdownEnqueued == \E i \in DOMAIN cmdq : cmdq[i] = Shutdown

\* C18: once a Shutdown is in the queue, or the handle has been dropped
\* (which closes the command channel), the worker thread eventually ends.
C18_WorkerEventuallyExits ==
    (ShutdownEnqueued \/ handle = "dropped") ~> (wpc = "exited")

\* C18 witness: the worker has ended on the closing of the channel, no
\* Shutdown ever sent, after serving what was queued when the handle went.
C18_Witness ==
    /\ wpc = "exited"
    /\ handle = "dropped"
    /\ \A i \in DOMAIN hist.log : hist.log[i] # Shutdown
    /\ Len(hist.log) = MaxSends
    /\ cmdq = <<>>
    /\ results # <<>>
    /\ IsSynthesisDone(Last(results))

-----------------------------------------------------------------------------
(* Claims about the methods of PlaybackState: SpecState.                   *)

\* position + offset, saturating at the ends of isize, then held in
\* [0, max_samples].
ClampedSeek(pos, offset, max_samples) ==
    Max(0, Min(Max(ISIZE_MIN, Min(pos + offset, ISIZE_MAX)), max_samples))

\* C19: seek_by_samples(offset, max) leaves position at
\* clamp(position + offset, 0, max), the addition saturating, for every
\* signed offset, isize::MAX and isize::MIN included; seek_by_secs does the
\* same with the offset secs * sample_rate * channels (its fraction
\* dropped, saturating), so with a zero sample rate or a zero channel count
\* a position that is in range stays where it is.
C19_SeekClamped ==
    /\ mpc.kind = "seek_by_samples" =>
          position = ClampedSeek(mpc.cur, mpc.args[1], mpc.args[2])
    /\ mpc.kind = "seek_by_secs" =>
          LET n == mpc.args[1]
              rate == mpc.args[2]
              channels == mpc.args[3]
              max_samples == mpc.args[4]
              product == n * rate * channels
              whole == IF product >= 0 THEN product \div SECS_DEN
                       ELSE -((-product) \div SECS_DEN)
              offset == Max(ISIZE_MIN, Min(whole, ISIZE_MAX))
          IN  /\ position = ClampedSeek(mpc.cur, offset, max_samples)
              /\ ((rate = 0 \/ channels = 0) /\ mpc.cur <= max_samples)
                    => position = mpc.cur

\* C19 witness: seek_by_samples(isize::MAX, max) from a position inside the
\* buffer, itself not 0, has put position at max.
C19_Witness ==
    /\ mpc.kind = "seek_by_samples"
    /\ mpc.args[1] = ISIZE_MAX
    /\ mpc.cur > 0 /\ mpc.cur < mpc.args[2]
    /\ position = mpc.args[2]

\* C20: toggle_playing flips the playing flag and returns the new value,
\* the negation of the value before the call; a state made by new() is
\* paused until the first call; and of two toggles in a row the second
\* brings back the flag the first one found.
C20_ToggleFlips ==
    /\ [](/\ mpc.kind = "none" => ~playing
          /\ mpc.kind = "toggle_playing" =>
                /\ playing = ~mpc.args[1]
                /\ mpc.result = <<playing>>)
    /\ [][(mpc.kind = "toggle_playing" /\ mpc'.kind = "toggle_playing")
             => playing' = mpc.args[1]]_vars

\* C20 witness: the second of two toggles on a fresh state has returned
\* false and the state is paused again.
C20_Witness ==
    /\ mpc.kind = "toggle_playing"
    /\ mpc.args = <<TRUE>>
    /\ mpc.result = <<FALSE>>
    /\ ~playing

-----------------------------------------------------------------------------
(* Properties of the error paths (specification SpecErrors).               *)

\* The step handles an error (a Status result, a failed load_file, a failed
\* rebuild_stream): it sets a status text, or the history records it.
ErrorHandled ==
    \/ is_some(app'.processing_status) /\ ~is_some(app.processing_status)
    \/ is_some(app'.status_message) /\ ~is_some(app.status_message)
    \/ pgh'.errs # pgh.errs
    \/ pgh'.epos # pgh.epos

\* C15: handling an error -- a Status result from the worker, a failed file
\* load, a failed stream rebuild -- changes neither the buffer installed in
\* the stream, nor the stored processed and original buffers, nor the
\* playback position.
C15_ErrorsKeepBuffers ==
    [][ErrorHandled =>
          /\ audio_lock' = audio_lock
          /\ app'.audio_data = app.audio_data
          /\ app'.original_audio = app.original_audio
          /\ position' = position]_vars

\* All three kinds of error have been handled, the latest with the position
\* past the start, and a Status since the last result that carried audio; a
\* buffer is installed and both buffers are stored.
C15_Witness ==
    /\ pgh.errs = {"status", "load", "rebuild"}
    /\ pgh.epos > 0 /\ position = pgh.epos
    /\ is_some(app.processing_status)
    /\ lock_is_some(audio_lock)
    /\ is_some(app.audio_data) /\ is_some(app.original_audio)

-----------------------------------------------------------------------------
(* Properties of the position rescales (specification SpecRescale).        *)

\* C21: when the channel count of a SynthesisDone buffer differs from the
\* previous one and neither is zero, the position becomes
\* min((old_position / old_channels) * new_channels, new sample count), the
\* division being the integer one: the frame the old position lies in,
\* counted in the new channels.  2 channels to 1 at position 200 gives 100.
C21_ChannelRescale ==
    mpc.kind = "reconcile_channels" =>
        LET old_position == mpc.args[1]
            old_channels == mpc.args[2]
            new_channels == mpc.args[3]
            new_count == mpc.args[4]
            new_position == mpc.result[1]
        IN  /\ (old_channels # new_channels /\ old_channels > 0
                 /\ new_channels > 0) =>
                   \E frame \in 0..old_position :
                      /\ frame * old_channels <= old_position
                      /\ old_position < (frame + 1) * old_channels
                      /\ new_position = Min(frame * new_channels, new_count)
            /\ (old_position = 200 /\ old_channels = 2 /\ new_channels = 1
                 /\ new_count >= 100) => new_position = 100

\* The example of the claim.
C21_Witness ==
    /\ mpc.kind = "reconcile_channels"
    /\ mpc.args = <<200, 2, 1, 400>>
    /\ mpc.result = <<100>>

\* The proportion old_position * new_length / old_length rounded to the
\* nearest integer, a half going up.
ExactRescale(pos, old_len, new_len) ==
    (2 * pos * new_len + old_len) \div (2 * old_len)

\* The proportion lies exactly half-way between two integers.
IsTie(pos, old_len, new_len) ==
    (2 * pos * new_len) % (2 * old_len) = old_len

-----------------------------------------------------------------------------
(* Properties of the hot swaps (specification SpecSwap).                   *)

HotSwapKinds == {"SynthesisDone", "ToggleAB"}

\* The main thread takes a step of a handler that swaps the buffer.
HotSwapStep ==
    mpc' # mpc /\ (mpc.kind \in HotSwapKinds \/ mpc'.kind \in HotSwapKinds)

\* The step is inside swap_audio.
InSwapAudio == mpc.pc \in {"swap_lock", "swap_write"}

\* C23: no step of a hot swap, on SynthesisDone or on an A/B toggle, changes
\* the playing flag, the live gain or the loop flag, and swap_audio changes
\* the position to nothing but the position supplied to it.
C23_SwapKeepsAtomics ==
    [][HotSwapStep =>
          /\ playing' = playing
          /\ live_gain' = live_gain
          /\ loop_enabled' = loop_enabled
          /\ (InSwapAudio /\ position' # position) =>
                 position' = mpc.new_pos]_vars

\* An A/B swap has just been done, after another swap, on a paused and
\* looping stream with the gain raised and the position past the start.
C23_Witness ==
    /\ mpc.pc = "swapped" /\ mpc.kind = "ToggleAB"
    /\ pgh.swaps = 2
    /\ ~playing /\ loop_enabled /\ live_gain = 2
    /\ position > 0

-----------------------------------------------------------------------------
\* A step in which rebuild_stream returns Ok, and one in which load_file does.
RebuildOk == mpc.pc = "rebuild" /\ audio_lock' # audio_lock

LoadOk == pgh'.loads # pgh.loads /\ sent' # sent

AtomicsKept ==
    /\ position' = position /\ playing' = playing
    /\ live_gain' = live_gain /\ loop_enabled' = loop_enabled

-----------------------------------------------------------------------------
\* The worker has finished a Load whose decode succeeded (AudioReady sent).
LoadDecoded ==
    /\ wpc = "idle" /\ batch.first.t = "Load" /\ decode_ok(batch.first.f)

\* C25: once a Load has decoded its file, each of the three caches is empty
\* or derived from that file, never from the file loaded before, also when
\* the analysis of the new file fails.
C25_LoadResetsCaches ==
    LoadDecoded =>
        /\ cached_params \in {"none", batch.first.f}
        /\ original_mono.src \in {"none", batch.first.f}
        /\ post_world_audio.src \in {"none", batch.first.f}

-----------------------------------------------------------------------------
\* Where in results the latest caught panic is reported; 0 when none is.
LastPanic ==
    LET at == {i \in 1..Len(results) : results[i] = Status("Internal error")}
    IN  IF at = {} THEN 0 ELSE CHOOSE i \in at : \A j \in at : j <= i

ResultsSince(k, t) == {i \in (k + 1)..Len(results) : results[i].t = t}

\* C26: from a caught panic until an analysis succeeds, the three caches are
\* empty and no SynthesisDone is sent, whatever Resynthesize and
\* ReapplyEffects commands the worker handles meanwhile.
C26_PanicEmptiesCaches ==
    (LastPanic > 0 /\ ResultsSince(LastPanic, "AnalysisDone") = {}) =>
        /\ cached_params = "none"
        /\ original_mono = NoAudio
        /\ post_world_audio = NoAudio
        /\ ResultsSince(LastPanic, "SynthesisDone") = {}

\* The worker held an analysed file, panicked on the next Load, and has since
\* handled a Resynthesize and a ReapplyEffects.
C26_Witness ==
    /\ hist.r0 > 0
    /\ hist.log = <<Load("huge"), Resynthesize("slow", "wet"),
                    ReapplyEffects("wet")>>
    /\ hist.panics = 1
    /\ cmdq = <<>> /\ wpc = "idle" /\ batch.done
    /\ batch.first = ReapplyEffects("wet")

-----------------------------------------------------------------------------
\* The step in which the worker leaves a Resynthesize drain loop and calls
\* run_resynthesize on slider values whose synthesis fails.
SynthesisFails ==
    /\ wpc \in {"drainR", "drainER"} /\ cmdq = <<>> /\ wpc' = "idle"
    /\ ~skips_vocoder(latest_world)
    /\ cached_params # "none"
    /\ ~synthesize_ok(cached_params, latest_world)

\* C27: a Resynthesize whose synthesis fails ends with a Status carrying the
\* error, sends no SynthesisDone, and leaves the three caches as they were.
C27_SynthesisFailureKeepsCaches ==
    [][SynthesisFails =>
          /\ Len(results') > Len(results)
          /\ results'[Len(results')] = Status("Synthesis error")
          /\ \A i \in (Len(results) + 1)..Len(results') :
                 results'[i].t = "Status"
          /\ UNCHANGED <<cached_params, original_mono,
                         post_world_audio>>]_vars

\* A Resynthesize has just failed in the synthesis, the caches still hold
\* the analysed file.
C27_Witness ==
    /\ wpc = "idle" /\ batch.done /\ batch.runs = 1
    /\ batch.first = Resynthesize("slow", "wet")
    /\ results[Len(results)] = Status("Synthesis error")
    /\ cached_params = "b"
    /\ original_mono # NoAudio
    /\ post_world_audio = original_mono

-----------------------------------------------------------------------------
\* The step in which the worker leaves a Resynthesize drain loop and calls
\* run_resynthesize with neutral sliders, or with the bypass flag set, while
\* it holds the mono original.
NeutralResynthesis ==
    /\ wpc \in {"drainR", "drainER"} /\ cmdq = <<>> /\ wpc' = "idle"
    /\ wpc = "drainR" \/ cached_params # "none"
    /\ latest_world \in {"neutral", "bypass"}
    /\ original_mono # NoAudio

\* The buffer of the latest AnalysisDone sent.
LastAnalysisDone ==
    LET at == {i \in 1..Len(results) : results[i].t = "AnalysisDone"}
    IN  IF at = {} THEN NoAudio
        ELSE results[CHOOSE i \in at : \A j \in at : j <= i].a

\* C28: with neutral sliders or bypass, run_resynthesize runs no vocoder
\* stage: it takes the cached mono original as the post-vocoder buffer,
\* caches it as such and sends the effects chain's output on it; with
\* neutral effects too, the SynthesisDone buffer is the buffer AnalysisDone
\* carried.
C28_NeutralSkipsVocoder ==
    [][NeutralResynthesis =>
          /\ results' = results \o
                 <<Status("Applying effects... (3/3)"),
                   SynthesisDone(apply_fx_chain(original_mono, latest_fx))>>
          /\ post_world_audio' = original_mono
          /\ EffectsParams_is_neutral(latest_fx) =>
                 /\ LastAnalysisDone # NoAudio
                 /\ results'[Len(results')] = SynthesisDone(LastAnalysisDone)
       ]_vars

\* A bypassed Resynthesize with effects, then a neutral one without, have
\* both run: the second sent the AnalysisDone buffer again.
C28_Witness ==
    /\ hist.log = <<Resynthesize("bypass", "wet"),
                    Resynthesize("neutral", "flat")>>
    /\ wpc = "idle" /\ batch.done /\ batch.runs = 1 /\ cmdq = <<>>
    /\ batch.first = Resynthesize("neutral", "flat")
    /\ original_mono # NoAudio
    /\ results[Len(results)] = SynthesisDone(original_mono)
    /\ \E i \in 1..Len(results) :
          results[i] = SynthesisDone(apply_fx_chain(original_mono, "wet"))
    /\ \E i \in 1..Len(results) : results[i] = AnalysisDone(original_mono)

-----------------------------------------------------------------------------
\* The cached post-vocoder buffer has been through no effect, and no buffer
\* sent has been through the effects chain more than once.
PostWorldIsPreEffects ==
    /\ post_world_audio.fx = <<>>
    /\ \A i \in 1..Len(results) :
          results[i].t = "SynthesisDone" => Len(results[i].a.fx) <= 1

\* The step in which the worker leaves the ReapplyEffects drain loop and
\* runs the effects-only pass.
ReapplyStep == wpc = "drainE" /\ cmdq = <<>> /\ wpc' = "idle"

\* C29: post_world_audio never holds the output of the effects chain: the
\* effects-only pass reads it and leaves it as it is, so that effects
\* applied again are applied to the pre-effects buffer, not on top of the
\* previous pass.
C29_PostWorldAudioPreEffects ==
    [][/\ PostWorldIsPreEffects /\ PostWorldIsPreEffects'
       /\ ReapplyStep => UNCHANGED post_world_audio]_vars

\* A Resynthesize with effects and two effects-only passes after it have
\* each sent the cached buffer with the effect applied once.
C29_Witness ==
    /\ hist.log = <<Resynthesize("bypass", "wet"), ReapplyEffects("wet"),
                    ReapplyEffects("wet")>>
    /\ wpc = "idle" /\ batch.done /\ cmdq = <<>>
    /\ post_world_audio # NoAudio
    /\ Cardinality({i \in 1..Len(results) :
                       results[i] = SynthesisDone(
                           apply_fx_chain(post_world_audio, "wet"))}) = 3

-----------------------------------------------------------------------------
\* The file of the latest successful load: the one of the last Analyze main
\* has sent.
CurrentFile ==
    LET at == {i \in 1..Len(hist.log) : hist.log[i].t = "Analyze"}
    IN  IF at = {} THEN "none"
        ELSE hist.log[CHOOSE i \in at : \A j \in at : j <= i].f

ComputedFromCurrentFile(o) == is_some(o) => SourceOf(unwrap(o)) = CurrentFile

\* C30: once a file is loaded, the buffer the stream plays and the original
\* and processed buffers main keeps are all computed from that file: a
\* result of a job on the file loaded before, arriving after the load, is
\* not installed.
C30_NoStaleResultInstalled ==
    CurrentFile # "none" =>
        /\ SourceOf(audio_lock.data) = CurrentFile
        /\ ComputedFromCurrentFile(app.original_audio)
        /\ ComputedFromCurrentFile(app.audio_data)

-----------------------------------------------------------------------------
\* The buffer the A/B flag selects.
SelectedBuffer ==
    IF app.ab_original THEN app.original_audio ELSE app.audio_data

\* C31: between two handlers of the main thread, a running stream plays the
\* buffer the A/B flag selects: the stored original when ab_original is
\* true, the stored processed buffer otherwise.
C31_SlotIsSelectedBuffer ==
    (mpc.pc = "idle" /\ lock_is_some(audio_lock)) =>
        /\ is_some(SelectedBuffer)
        /\ audio_lock.data = unwrap(SelectedBuffer)

-----------------------------------------------------------------------------
\* The step in which a callback invocation stores the position it advanced.
CallbackStores == cb.pc = "loaded" /\ cb'.pc = "idle"

\* C32: a position stored by a seek or by Home/End is not overwritten by a
\* callback invocation that loaded the position before it: when the
\* callback stores, the position is still the one it loaded.
C32_SeekNotLost ==
    [][CallbackStores => position = cb.pos]_vars

-----------------------------------------------------------------------------
\* C33: the three worker caches are all empty or all set: the vocoder
\* parameters, the mono original and the post-vocoder buffer are present
\* together.
C33_CachesTogether ==
    /\ (cached_params = "none") <=> (original_mono = NoAudio)
    /\ (cached_params = "none") <=> (post_world_audio = NoAudio)

\* The caches were emptied by a caught panic, filled by the analysis of
\* another file, and the post-vocoder buffer replaced by a resynthesis.
C33_Witness ==
    /\ hist.panics = 1
    /\ wpc = "idle" /\ cmdq = <<>> /\ batch.done
    /\ cached_params = "a"
    /\ original_mono = to_mono(decode_file("a"))
    /\ post_world_audio = synthesize("a", "slow", "a")

-----------------------------------------------------------------------------
\* The result stream has an AnalysisDone before each of its SynthesisDone.
AnalysisBeforeSynthesis ==
    \A i \in DOMAIN results :
        results[i].t = "SynthesisDone" =>
            \E j \in 1..(i - 1) : results[j].t = "AnalysisDone"

\* recv() hands a Resynthesize to a worker that has no analysis cached.
ResynthesizeUncached ==
    /\ wpc = "idle" /\ cmdq # <<>> /\ cmdq' = Tail(cmdq)
    /\ Head(cmdq).t = "Resynthesize"
    /\ cached_params = "none"

\* The ReapplyEffects drain loop ends with no post-vocoder buffer cached.
ReapplyUncached ==
    /\ wpc = "drainE" /\ cmdq = <<>> /\ wpc' = "idle"
    /\ post_world_audio = NoAudio

\* C34: every SynthesisDone in the result stream is preceded by an
\* AnalysisDone; a Resynthesize received while no analysis is cached is
\* discarded without draining the queue and without a result, and a
\* ReapplyEffects with no cached post-vocoder buffer emits nothing.
C34_SynthesisAfterAnalysis ==
    [][/\ AnalysisBeforeSynthesis /\ AnalysisBeforeSynthesis'
       /\ ResynthesizeUncached =>
              /\ results' = results
              /\ wpc' = "idle"
              /\ Len(cmdq') = Len(cmdq) - 1
       /\ ReapplyUncached => results' = results]_vars

\* A worker that held an analysis resynthesized it, lost its caches to a
\* panic, and then received another Resynthesize, which it discarded.
C34_Witness ==
    /\ hist.r0 > 0 /\ hist.panics = 1
    /\ hist.log = <<Resynthesize("neutral", "flat"), Load("huge"),
                    Resynthesize("slow", "wet")>>
    /\ wpc = "idle" /\ cmdq = <<>>
    /\ batch.first = Resynthesize("slow", "wet")
    /\ batch.cached0 = "none" /\ batch.done
    /\ batch.rstart = Len(results)
    /\ \E i \in DOMAIN results : results[i].t = "SynthesisDone"

-----------------------------------------------------------------------------
\* The deadline check of an iteration (main.rs 234-250).
TimerCheck == lpc = "timers" /\ lpc' = "poll"

\* C35: a successful load clears both debounce timers, so from the load
\* until the user's next slider adjustment neither deadline is pending and
\* the deadline check sends no Resynthesize and no ReapplyEffects.
C35_LoadClearsTimers ==
    [][/\ tlog'.quiet => resynth_pending' = None /\ effects_pending' = None
       /\ (tlog.quiet /\ TimerCheck) => sent' = sent]_vars

\* A vocoder slider was adjusted, a file was loaded before the deadline, and
\* the deadline has passed with nothing sent but the load's Analyze, whose
\* AnalysisDone has not arrived yet.
C35_Witness ==
    /\ tlog.quiet /\ tlog.inflight = 1
    /\ is_some(tlog.lastR)
    /\ now >= unwrap(tlog.lastR) + RESYNTH_DEBOUNCE
    /\ lpc = "poll"
    /\ sent = <<"Analyze">>

-----------------------------------------------------------------------------
\* try_recv hands main a SynthesisDone while the user listens to A.
SynthesisDoneOnA ==
    /\ mpc.pc = "idle" /\ app.ab_original
    /\ pgh.nres < Len(results)
    /\ results[pgh.nres + 1].t = "SynthesisDone"
    /\ pgh'.nres = pgh.nres + 1

\* The 'a' key while the user listens to A (a load also leaves A).
ToggleToB ==
    /\ mpc.pc = "idle" /\ app.ab_original /\ ~app'.ab_original
    /\ pgh'.loads = pgh.loads

\* C36: on A, an arriving SynthesisDone only replaces the stored processed
\* buffer: the installed buffer, the position and the playing flag are
\* unchanged; nothing else replaces it while the user stays on A, and the
\* toggle to B installs the stored buffer.
C36_SynthesisDoneOnAOnlyStores ==
    [][/\ SynthesisDoneOnA =>
              /\ app'.audio_data = Some(as_audio(results[pgh.nres + 1].a))
              /\ app' = [app EXCEPT !.audio_data = app'.audio_data,
                                    !.processing_status = None,
                                    !.status_message = None]
              /\ UNCHANGED <<audio_lock, position, playing, mpc>>
       /\ (app.ab_original /\ app'.ab_original
              /\ app'.audio_data # app.audio_data) => SynthesisDoneOnA
       /\ ToggleToB =>
              /\ mpc'.pc = "swap_lock"
              /\ mpc'.new_audio = unwrap(app.audio_data)
       /\ (mpc.kind = "ToggleAB" /\ mpc.pc = "swap_write"
              /\ mpc'.pc = "swapped") => audio_lock'.data = mpc.new_audio]_vars

\* The half-speed synthesis arrived while the user listened to the original
\* and the toggle back to B has just installed it: the second swap since the
\* load, the first being the toggle to A.
C36_Witness ==
    /\ mpc.pc = "swapped" /\ mpc.kind = "ToggleAB"
    /\ ~app.ab_original
    /\ pgh.loads = 1 /\ pgh.swaps = 2
    /\ pgh.nres > 0 /\ results[pgh.nres].t = "SynthesisDone"
    /\ results[pgh.nres].a.w = "slow"
    /\ audio_lock.data = as_audio(results[pgh.nres].a)
    /\ app.audio_data = Some(audio_lock.data)

-----------------------------------------------------------------------------
\* C37: in the tick where the resynthesis timer matures both timers are
\* cleared and exactly one command is sent, a Resynthesize that carries the
\* effects parameters of that moment; no ReapplyEffects follows it.
C37_MaturedResynthSendsOneCommand ==
    [][(TimerCheck /\ matured(resynth_pending, now)) =>
          /\ resynth_pending' = None
          /\ effects_pending' = None
          /\ sent' = Append(sent, "Resynthesize")
          /\ tlog'.r_fx = Some(app.effects_sliders)]_vars

\* An effects slider was moved to "wet" after a vocoder slider; the
\* resynthesis deadline came first and its Resynthesize, the only command
\* sent, carries "wet" while the effects timer is cancelled.
C37_Witness ==
    /\ tlog.e_cancelled
    /\ tlog.r_send_at = Some(now)
    /\ tlog.r_fx = Some("wet")
    /\ app.effects_sliders = "wet"
    /\ effects_pending = None /\ resynth_pending = None
    /\ sent = <<"Resynthesize">>

-----------------------------------------------------------------------------
(* The automatic resynthesis after an analysis: SpecListen.                *)

\* How many AnalysisDone main has taken from the channel.
AnalysesTaken ==
    Cardinality({i \in 1..pgh.nres : results[i].t = "AnalysisDone"})

\* Main has sent the load's Analyze and, for each AnalysisDone it has taken,
\* one Resynthesize with the values the sliders show.
OneResynthesizePerAnalysis ==
    hist.log = <<hist.log[1]>> \o
               [i \in 1..AnalysesTaken |->
                   Resynthesize(app.world_sliders, app.effects_sliders)]

\* The worker waits in recv on an empty queue and main has taken every
\* result, the AnalysisDone among them.
AtRest ==
    /\ wpc = "idle" /\ cmdq = <<>>
    /\ mpc.pc = "idle" /\ pgh.nres = Len(results)
    /\ AnalysesTaken > 0

\* The processed audio of the loaded file under the sliders' settings.
ExpectedSynthesis ==
    LET f == hist.log[1].f
        world == IF skips_vocoder(app.world_sliders)
                 THEN to_mono(decode_file(f))
                 ELSE synthesize(f, app.world_sliders, sample_rate)
    IN  apply_fx_chain(world, app.effects_sliders)

SynthesisArrived ==
    \E j \in 1..pgh.nres : results[j] = SynthesisDone(ExpectedSynthesis)

SynthesisRefused ==
    /\ \E j \in 1..pgh.nres : results[j] = Status("Synthesis error")
    /\ \A j \in 1..pgh.nres : results[j].t # "SynthesisDone"

\* C38 as stated: every AnalysisDone main receives makes it send exactly one
\* Resynthesize with the current slider and effects values, and the worker
\* and main do not come to rest before the SynthesisDone for those settings
\* has arrived.
C38_SynthesisAlwaysArrives ==
    /\ OneResynthesizePerAnalysis
    /\ AtRest => SynthesisArrived

\* C38 amended: one Resynthesize with the current values per AnalysisDone;
\* at rest the SynthesisDone for those settings has arrived, or the vocoder
\* refused the synthesis and a "Synthesis error" status arrived in its place.
C38_SynthesisArrivesOrIsRefused ==
    /\ OneResynthesizePerAnalysis
    /\ AtRest =>
          IF synthesize_ok(hist.log[1].f, app.world_sliders)
          THEN SynthesisArrived
          ELSE SynthesisRefused

\* The half-speed synthesis with the effect on has arrived and was swapped
\* in, the only swap since the load: the user pressed nothing.
C38_Witness ==
    /\ AtRest /\ SynthesisArrived
    /\ app.world_sliders = "slow" /\ app.effects_sliders = "wet"
    /\ ~app.ab_original /\ pgh.swaps = 1
    /\ audio_lock.data = as_audio(ExpectedSynthesis)
    /\ hist.log = <<Analyze("a"), Resynthesize("slow", "wet")>>

-----------------------------------------------------------------------------
\* The commands the worker has taken from the queue, in order.
ConsumedCommands == SubSeq(hist.log, 1, Consumed)

CommandCount(t) == Len(SelectSeq(ConsumedCommands, LAMBDA c : c.t = t))

ResultCount(ts) == Len(SelectSeq(results, LAMBDA r : r.t \in ts))

FastResults == {"DirectoryListing", "AudioPrecheckDone", "AudioPrecheckFailed"}

\* C39: every ScanDirectory and every PrecheckAudio the worker has consumed,
\* dispatched or drained, has produced exactly one result, and within a
\* batch those results come before the batch's SynthesisDone.
C39_FastCommandsAnswered ==
    /\ ResultCount({"DirectoryListing"}) = CommandCount("ScanDirectory")
    /\ ResultCount({"AudioPrecheckDone", "AudioPrecheckFailed"}) =
           CommandCount("PrecheckAudio")
    /\ \A i, j \in DOMAIN BatchOut :
           (i < j /\ BatchOut[i].t = "SynthesisDone") =>
               BatchOut[j].t \notin FastResults

\* A Resynthesize on an analysed file drained a ScanDirectory and a
\* PrecheckAudio: their two results precede the batch's SynthesisDone.
C39_Witness ==
    /\ hist.log = <<Resynthesize("neutral", "flat"), ScanDirectory,
                    PrecheckAudio("missing")>>
    /\ batch.first = hist.log[1] /\ batch.done
    /\ batch.drained = <<ScanDirectory, PrecheckAudio("missing")>>
    /\ Len(BatchOut) >= 3
    /\ BatchOut[1] = DirectoryListing
    /\ BatchOut[2] = AudioPrecheckFailed
    /\ Last(BatchOut).t = "SynthesisDone"

-----------------------------------------------------------------------------
\* An invocation of the callback starts while the playing flag is false.
PausedInvocation ==
    /\ cb.pc = "idle" /\ ret.path = "none" /\ ret'.path # "none"
    /\ ~playing

\* C40: an invocation that finds the playing flag false outputs only silence
\* and changes nothing; no step of the callback writes the playing flag, the
\* buffer slot, the gain or the loop flag, so reaching the end of the buffer
\* leaves the playing flag set.
C40_CallbackWritesOnlyPosition ==
    [][/\ PausedInvocation =>
              /\ ret'.path = "paused"
              /\ Len(ret'.out) > 0
              /\ \A i \in DOMAIN ret'.out : ret'.out[i] = silence
              /\ UNCHANGED <<position, audio_lock, cb>>
       /\ UNCHANGED <<playing, live_gain, loop_enabled, device_channels>>
       /\ audio_lock'.data = audio_lock.data
       /\ audio_lock'.writer = audio_lock.writer]_vars

\* An invocation has played a buffer to its end, the loop flag off: the
\* position is at the end, the last frame it wrote is silence and the
\* playing flag is still set.
C40_Witness ==
    /\ ret.path = "rendered" /\ ~ret.looping
    /\ ret.pos0 < Len(ret.data.samples)
    /\ ret.pos1 >= Len(ret.data.samples)
    /\ position = ret.pos1
    /\ Len(ret.out) > 0 /\ ret.out[Len(ret.out)] = silence
    /\ playing /\ audio_lock.data = ret.data

====
